---------------------------- MODULE Spec2Model ----------------------------
(***************************************************************************)
(* A model of roffio: the ROFF tokenizers (binary and text), the lazy      *)
(* parser, the endianess handler, read/lazy_read and the writer.           *)
(*                                                                         *)
(* A stream is a sequence of character codes (bytes of a byte stream,      *)
(* code points of a text stream); a stream position is the 0-based offset  *)
(* stream.tell() returns, so the unit at position p is s[p + 1].           *)
(***************************************************************************)
EXTENDS Integers, Sequences, FiniteSets, TLC

(***************************************************************************)
(* Characters and keywords                                                 *)
(***************************************************************************)
\* stream.read(1) at the end of the stream returns the empty string
EOF == -1
NUL == 0
HASH == 35
QUOTE == 34
MINUS == 45
NEWLINE == 10
SPACE == 32

\* str.isspace() / str.isnumeric() for the code points below 128
SpaceChars == {9, 10, 11, 12, 13, 28, 29, 30, 31, 32}
DigitChars == 48..57
\* the characters ".eE+-" a text numeric value may continue with
NumericTail == {46, 101, 69, 43, 45}

\* TokenKind.keywords()
Keywords ==
    [ROFF_BIN |-> <<114, 111, 102, 102, 45, 98, 105, 110>>,
     ROFF_ASC |-> <<114, 111, 102, 102, 45, 97, 115, 99>>,
     TAG      |-> <<116, 97, 103>>,
     ENDTAG   |-> <<101, 110, 100, 116, 97, 103>>,
     CHAR     |-> <<99, 104, 97, 114>>,
     BOOL     |-> <<98, 111, 111, 108>>,
     BYTE     |-> <<98, 121, 116, 101>>,
     INT      |-> <<105, 110, 116>>,
     FLOAT    |-> <<102, 108, 111, 97, 116>>,
     DOUBLE   |-> <<100, 111, 117, 98, 108, 101>>,
     ARRAY    |-> <<97, 114, 114, 97, 121>>]

\* TokenKind.simple_types(), in the order one_of tries them
SimpleTypes == <<"CHAR", "BOOL", "BYTE", "INT", "FLOAT", "DOUBLE">>
SimpleTypeSet == {SimpleTypes[i] : i \in 1..Len(SimpleTypes)}

(***************************************************************************)
(* Token and stream primitives                                             *)
(***************************************************************************)
Token(kind, start, end) == [kind |-> kind, start |-> start, end |-> end]
NoToken == Token("NONE", 0, 0)

\* the result of running a tokenizer: ok = it yielded tok, pos = where it
\* left the stream (after a failure: where it wound the stream back to)
Yield(tok, pos) == [ok |-> TRUE, tok |-> tok, pos |-> pos]
Fail(pos) == [ok |-> FALSE, tok |-> NoToken, pos |-> pos]

\* stream.seek(p); stream.read(1)
Rd(s, p) == IF p < Len(s) THEN s[p + 1] ELSE EOF

\* stream.seek(p); stream.read(n): short at the end of the stream
ReadN(s, p, n) ==
    IF p >= Len(s) \/ n <= 0 THEN <<>>
    ELSE SubSeq(s, p + 1, IF p + n <= Len(s) THEN p + n ELSE Len(s))

\* Token.get_value: the content of [start, end); the position is restored
get_value(tok, s) == ReadN(s, tok.start, tok.end - tok.start)

\* a get_value that leaves the stream where its read ended
Token_get_value_no_seek_back(tok, s, pos) ==
    [value |-> get_value(tok, s), pos |-> tok.start + Len(get_value(tok, s))]

\* Token.get_value on a stream that stands at pos: go_back = stream.tell(),
\* seek(start), read(end - start), seek(go_back); the value it returns and
\* where it leaves the stream
Token_get_value(tok, s, pos) ==
    LET go_back == pos
    IN  [value |-> get_value(tok, s), pos |-> go_back]

\* the first position q >= p whose unit is in stops, Len(s) if there is none
RECURSIVE ScanTo(_, _, _)
ScanTo(s, p, stops) ==
    IF p >= Len(s) THEN Len(s)
    ELSE IF s[p + 1] \in stops THEN p
    ELSE ScanTo(s, p + 1, stops)

\* the first position q >= p whose unit is not in allowed, Len(s) if none
RECURSIVE ScanWhile(_, _, _)
ScanWhile(s, p, allowed) ==
    IF p >= Len(s) THEN Len(s)
    ELSE IF s[p + 1] \notin allowed THEN p
    ELSE ScanWhile(s, p + 1, allowed)

\* common.tokenize_word: read len(word) units and compare
tokenize_word(s, p, word, kind) ==
    IF ReadN(s, p, Len(word)) = word
    THEN Yield(Token(kind, p, p + Len(word)), p + Len(word))
    ELSE Fail(p)

(***************************************************************************)
(* BinaryRoffBodyTokenizer                                                 *)
(***************************************************************************)
\* tokenlen: bytes of a fixed-size type (0 stands for the TokenizationError
\* of a non-fixed-size type; tokenize_value never asks it for CHAR)
\* a tokenlen that takes every type for four bytes wide
tokenlen_all_four(kind) == 4

tokenlen(kind) ==
    CASE kind \in {"BOOL", "BYTE"} -> 1
      [] kind \in {"INT", "FLOAT"} -> 4
      [] kind = "DOUBLE" -> 8
      [] OTHER -> 0

Bin_tokenize_delimiter(s, p) ==
    IF Rd(s, p) = NUL THEN Yield(NoToken, p + 1) ELSE Fail(p)

\* tokenize_comment yields no token; an error of tokenize_delimiter passes
\* through it with the stream where tokenize_delimiter left it
Bin_tokenize_comment(s, p) ==
    LET after(q) == IF q >= Len(s) THEN Fail(p) ELSE Bin_tokenize_delimiter(s, q + 1)
    IN  IF Rd(s, p) = HASH THEN after(ScanTo(s, p + 1, {HASH})) ELSE Fail(p)

\* repeated(self.tokenize_comment): the position the last, failing attempt
\* leaves
RECURSIVE Bin_repeated_comment(_, _)
Bin_repeated_comment(s, p) ==
    LET again(r) == IF r.ok THEN Bin_repeated_comment(s, r.pos) ELSE r.pos
    IN  again(Bin_tokenize_comment(s, p))

\* binary_ended(tokenizer): the token, then one null byte
binary_ended(s, p, word, kind) ==
    LET ended(r) == IF ~r.ok THEN r
                    ELSE IF Rd(s, r.pos) = NUL THEN Yield(r.tok, r.pos + 1)
                    ELSE Fail(r.pos)
    IN  ended(tokenize_word(s, p, word, kind))

Bin_tokenize_keyword(s, p, kind) ==
    binary_ended(s, Bin_repeated_comment(s, p), Keywords[kind], kind)

\* tokenize_string(kind): the bytes up to a null byte
Bin_tokenize_string(s, p, kind) ==
    LET upto(q) == IF q >= Len(s) THEN Fail(p) ELSE Yield(Token(kind, p, q), q + 1)
    IN  upto(ScanTo(s, p, {NUL}))

Bin_tokenize_name(s, p) ==
    Bin_tokenize_string(s, Bin_repeated_comment(s, p), "NAME")

\* tokenize_numeric_value(kind): seek past the value, whatever the stream holds
Bin_tokenize_numeric_value(s, p, kind) ==
    Yield(Token("BINARY_NUMERIC_VALUE", p, p + tokenlen(kind)), p + tokenlen(kind))

Bin_tokenize_value(s, p, kind) ==
    IF kind = "CHAR" THEN Bin_tokenize_string(s, p, "STRING_LITERAL")
    ELSE Bin_tokenize_numeric_value(s, p, kind)

(***************************************************************************)
(* TextRoffBodyTokenizer                                                   *)
(***************************************************************************)
Txt_tokenize_space(s, p) ==
    IF Rd(s, p) \in SpaceChars
    THEN Yield(NoToken, ScanWhile(s, p, SpaceChars))
    ELSE Fail(p)

Txt_tokenize_comment(s, p) ==
    LET after(q) == IF q >= Len(s) THEN Fail(p) ELSE Yield(NoToken, q + 1)
    IN  IF Rd(s, p) = HASH THEN after(ScanTo(s, p + 1, {HASH})) ELSE Fail(p)

\* tokenize_delimiter = repeated(one_of(tokenize_comment, tokenize_space))
RECURSIVE Txt_tokenize_delimiter(_, _)
Txt_tokenize_delimiter(s, p) ==
    LET again(w) == IF w.ok THEN Txt_tokenize_delimiter(s, w.pos) ELSE w.pos
        either(c) == IF c.ok THEN c ELSE Txt_tokenize_space(s, c.pos)
    IN  again(either(Txt_tokenize_comment(s, p)))

Txt_tokenize_keyword(s, p, kind) ==
    tokenize_word(s, Txt_tokenize_delimiter(s, p), Keywords[kind], kind)

Txt_tokenize_name(s, p) ==
    LET word(start, q) ==
            IF q - start < 1 THEN Fail(start)
            ELSE Yield(Token("NAME", start, q), IF q < Len(s) THEN q + 1 ELSE q)
        from(start) == word(start, ScanTo(s, start, SpaceChars))
    IN  from(Txt_tokenize_delimiter(s, p))

Txt_tokenize_numeric_value(s, p) ==
    LET number(start, end) ==
            IF end - start < 1 THEN Fail(start)
            ELSE Yield(Token("NUMERIC_VALUE", start, end), end)
        from(start) ==
            number(start, IF Rd(s, start) \in DigitChars \/ Rd(s, start) = MINUS
                          THEN ScanWhile(s, start, DigitChars \cup NumericTail)
                          ELSE start)
    IN  from(Txt_tokenize_delimiter(s, p))

\* literal_end is first set to the position after the unit that follows the
\* opening quote, and moved only while that unit is not a quote
Txt_tokenize_string_literal(s, p) ==
    LET literal(start, literal_start, q) ==
            IF Rd(s, start) # QUOTE THEN Fail(start)
            ELSE IF q >= Len(s) THEN Fail(start)
            ELSE IF q = literal_start
                 THEN Yield(Token("STRING_LITERAL", literal_start, literal_start + 1), q + 1)
                 ELSE Yield(Token("STRING_LITERAL", literal_start, q), q + 1)
        from(start) == literal(start, start + 1, ScanTo(s, start + 1, {QUOTE}))
    IN  from(Txt_tokenize_delimiter(s, p))

\* tokenize_value = one_of(tokenize_numeric_value, tokenize_string_literal)
Txt_tokenize_value(s, p) ==
    LET either(n) == IF n.ok THEN n ELSE Txt_tokenize_string_literal(s, n.pos)
    IN  either(Txt_tokenize_numeric_value(s, p))


(***************************************************************************)
(* AbstractRoffBodyTokenizer: the grammar as a generator                   *)
(*                                                                         *)
(* A body tokenizer is a generator; its state between two tokens is the    *)
(* stream position and the place in the grammar where it is suspended:     *)
(*   at = "body"      in repeated(tokenize_tag_group), before a tag group  *)
(*        "tagname"   in tokenize_tag_group, after TAG                     *)
(*        "tagkeys"   in repeated(tokenize_tagkey), before a tagkey        *)
(*        "sk_name", "sk_value"   in tokenize_simple_tagkey                *)
(*        "a_type", "a_name", "a_size", "a_data", "a_chars", "a_vals"      *)
(*                    in tokenize_array_tagkey                             *)
(*        "finished"  the generator has returned or raised                 *)
(* typ is the type token's kind, cnt the array size token and n the number *)
(* of strings of a binary char array still to come.                        *)
(* m is the body tokenizer: "bin" or "txt".                                *)
(***************************************************************************)
TState(at, pos, typ, n, cnt) ==
    [at |-> at, pos |-> pos, typ |-> typ, n |-> n, cnt |-> cnt]

\* the generator yields tok and is suspended in state ts
Emit(tok, ts) == [res |-> "tok", tok |-> tok, ts |-> ts, err |-> "none"]
\* the generator returns (StopIteration)
Stop(pos) ==
    [res |-> "stop", tok |-> NoToken,
     ts |-> TState("finished", pos, "NONE", 0, NoToken), err |-> "none"]
\* the generator raises
Raise(err, pos) ==
    [res |-> "err", tok |-> NoToken,
     ts |-> TState("finished", pos, "NONE", 0, NoToken), err |-> err]
\* the generator goes on, without a token, at another place of the grammar:
\*   "array_tagkey"   the second alternative of tokenize_tagkey
\*   "tag_group_end"  the ENDTAG of tokenize_tag_group, after repeated(tokenize_tagkey)
\*   "end_of_file"    tokenize_end_of_file, after repeated(tokenize_tag_group)
Fall(at, pos) ==
    [res |-> "fall", tok |-> NoToken, ts |-> TState(at, pos, "NONE", 0, NoToken),
     err |-> "none"]

tokenize_keyword(m, s, p, kind) ==
    IF m = "bin" THEN Bin_tokenize_keyword(s, p, kind)
    ELSE Txt_tokenize_keyword(s, p, kind)

tokenize_name(m, s, p) ==
    IF m = "bin" THEN Bin_tokenize_name(s, p) ELSE Txt_tokenize_name(s, p)

\* one_of(*tokenizers) over keyword tokenizers: each alternative starts where
\* the one before it left the stream
RECURSIVE one_of(_, _, _, _, _)
one_of(m, s, p, kinds, i) ==
    LET next(r) == IF r.ok \/ i = Len(kinds) THEN r ELSE one_of(m, s, r.pos, kinds, i + 1)
    IN  next(tokenize_keyword(m, s, p, kinds[i]))

tokenize_simple_type(m, s, p) == one_of(m, s, p, SimpleTypes, 1)

\* tokenize_end_of_file, reached when repeated(tokenize_tag_group) ends
tokenize_end_of_file(m, s, p) ==
    LET end(q) == IF Rd(s, q) # EOF THEN Raise("TokenizationError", q) ELSE Stop(q)
    IN  end(IF m = "bin" THEN Bin_repeated_comment(s, p) ELSE Txt_tokenize_delimiter(s, p))

\* the ENDTAG of tokenize_tag_group, reached when repeated(tokenize_tagkey)
\* ends; its failure ends repeated(tokenize_tag_group)
tokenize_tag_group_end(m, s, p) ==
    LET then(r) == IF r.ok THEN Emit(r.tok, TState("body", r.pos, "NONE", 0, NoToken))
                   ELSE Fall("end_of_file", r.pos)
    IN  then(tokenize_keyword(m, s, p, "ENDTAG"))

\* tokenize_array_tagkey, the last alternative of tokenize_tagkey: its
\* failure makes one_of raise, which ends repeated(tokenize_tagkey)
tokenize_array_tagkey(m, s, p) ==
    LET then(r) == IF r.ok THEN Emit(r.tok, TState("a_type", r.pos, "NONE", 0, NoToken))
                   ELSE Fall("tag_group_end", r.pos)
    IN  then(tokenize_keyword(m, s, p, "ARRAY"))

\* tokenize_tagkey = one_of(tokenize_simple_tagkey, tokenize_array_tagkey)
tokenize_tagkey(m, s, p) ==
    LET then(r) == IF r.ok THEN Emit(r.tok, TState("sk_name", r.pos, r.tok.kind, 0, NoToken))
                   ELSE Fall("array_tagkey", r.pos)
    IN  then(tokenize_simple_type(m, s, p))

\* tokenize_tag_group, from its start
tokenize_tag_group(m, s, p) ==
    LET then(r) == IF r.ok THEN Emit(r.tok, TState("tagname", r.pos, "NONE", 0, NoToken))
                   ELSE Fall("end_of_file", r.pos)
    IN  then(tokenize_keyword(m, s, p, "TAG"))

Reverse(b) == [i \in 1..Len(b) |-> b[Len(b) + 1 - i]]

\* Python integers are unbounded; a count of MaxCount or more stands for
\* every larger count (the blob then ends far past the end of the stream)
MaxCount == 134217728

RECURSIVE from_bytes_big(_, _)
from_bytes_big(b, acc) ==
    IF b = <<>> THEN acc
    ELSE IF acc >= MaxCount \div 256 THEN MaxCount
    ELSE from_bytes_big(Tail(b), acc * 256 + Head(b))

\* int.from_bytes(bytes, endianess), unsigned
from_bytes(b, endianess) ==
    IF endianess = "big" THEN from_bytes_big(b, 0)
    ELSE from_bytes_big(Reverse(b), 0)

\* Bin tokenize_array_data for CHAR: one of the n strings still to come
Bin_array_chars(s, p, n) ==
    LET then(r) == IF r.ok
                   THEN Emit(r.tok, TState(IF n = 1 THEN "tagkeys" ELSE "a_chars",
                                           r.pos, "CHAR", n - 1, NoToken))
                   ELSE Fall("tag_group_end", r.pos)
    IN  IF n = 0 THEN Fall("tagkeys", p)
        ELSE then(Bin_tokenize_string(s, p, "STRING_LITERAL"))

\* BinaryRoffBodyTokenizer.tokenize_array_data: the count is read from the
\* size token under the body tokenizer's endianess at this moment
Bin_tokenize_array_data(s, ts, e) ==
    LET blob(end) == Emit(Token("ARRAYBLOB", ts.pos, end),
                          TState("tagkeys", end, "NONE", 0, NoToken))
        data(num_values) ==
            IF ts.typ = "CHAR"
            THEN [Fall("a_chars", ts.pos) EXCEPT !.ts.typ = "CHAR", !.ts.n = num_values]
            ELSE blob(ts.pos + tokenlen(ts.typ) * num_values)
    IN  data(from_bytes(get_value(ts.cnt, s), e))

\* TextRoffBodyTokenizer.tokenize_array_data = repeated(tokenize_value)
Txt_tokenize_array_data(s, ts) ==
    LET then(r) == IF r.ok THEN Emit(r.tok, TState("a_vals", r.pos, ts.typ, 0, NoToken))
                   ELSE Fall("tagkeys", r.pos)
    IN  then(Txt_tokenize_value(s, ts.pos))

\* next(body tokenizer): resume the generator in state ts; a part of the
\* grammar that fails hands over to the part that follows it
RECURSIVE body_next(_, _, _, _)
body_next(m, s, ts, e) ==
    LET tagname(r) ==
            IF r.ok THEN Emit(r.tok, TState("tagkeys", r.pos, "NONE", 0, NoToken))
            ELSE Fall("end_of_file", r.pos)
        sk_name(r) ==
            IF r.ok THEN Emit(r.tok, TState("sk_value", r.pos, ts.typ, 0, NoToken))
            ELSE Fall("array_tagkey", r.pos)
        sk_value(r) ==
            IF r.ok THEN Emit(r.tok, TState("tagkeys", r.pos, "NONE", 0, NoToken))
            ELSE Fall("array_tagkey", r.pos)
        a_type(r) ==
            IF r.ok THEN Emit(r.tok, TState("a_name", r.pos, r.tok.kind, 0, NoToken))
            ELSE Fall("tag_group_end", r.pos)
        a_name(r) ==
            IF r.ok THEN Emit(r.tok, TState("a_size", r.pos, ts.typ, 0, NoToken))
            ELSE Fall("tag_group_end", r.pos)
        a_size(r) ==
            IF r.ok THEN Emit(r.tok, TState(IF m = "bin" THEN "a_data" ELSE "a_vals",
                                            r.pos, ts.typ, 0, r.tok))
            ELSE Fall("tag_group_end", r.pos)
        go_on(r) == IF r.res = "fall" THEN body_next(m, s, r.ts, e) ELSE r
    IN  go_on(CASE ts.at = "body" -> tokenize_tag_group(m, s, ts.pos)
                [] ts.at = "tagname" -> tagname(tokenize_name(m, s, ts.pos))
                [] ts.at = "tagkeys" -> tokenize_tagkey(m, s, ts.pos)
                [] ts.at = "array_tagkey" -> tokenize_array_tagkey(m, s, ts.pos)
                [] ts.at = "tag_group_end" -> tokenize_tag_group_end(m, s, ts.pos)
                [] ts.at = "end_of_file" -> tokenize_end_of_file(m, s, ts.pos)
                [] ts.at = "sk_name" -> sk_name(tokenize_name(m, s, ts.pos))
                [] ts.at = "sk_value" ->
                      sk_value(IF m = "bin" THEN Bin_tokenize_value(s, ts.pos, ts.typ)
                               ELSE Txt_tokenize_value(s, ts.pos))
                [] ts.at = "a_type" -> a_type(tokenize_simple_type(m, s, ts.pos))
                [] ts.at = "a_name" -> a_name(tokenize_name(m, s, ts.pos))
                [] ts.at = "a_size" ->
                      a_size(IF m = "bin" THEN Bin_tokenize_numeric_value(s, ts.pos, "INT")
                             ELSE Txt_tokenize_numeric_value(s, ts.pos))
                [] ts.at = "a_data" -> Bin_tokenize_array_data(s, ts, e)
                [] ts.at = "a_chars" -> Bin_array_chars(s, ts.pos, ts.n)
                [] ts.at = "a_vals" -> Txt_tokenize_array_data(s, ts)
                [] OTHER -> Stop(ts.pos))

(***************************************************************************)
(* RoffTokenizer                                                           *)
(***************************************************************************)
\* a tokenize_header that takes b"roff-bin" for the header whatever follows
tokenize_header_any_delimiter(s, text, p) ==
    LET header == ReadN(s, p, 8)
    IN  IF ~text /\ header = Keywords.ROFF_BIN
        THEN Emit(Token("ROFF_BIN", p, p + 8), TState("body", p + 9, "NONE", 0, NoToken))
        ELSE IF text /\ header = Keywords.ROFF_ASC
        THEN Emit(Token("ROFF_ASC", p, p + 8), TState("body", p + 8, "NONE", 0, NoToken))
        ELSE IF header \in {Keywords.ROFF_ASC, Keywords.ROFF_BIN}
        THEN Raise("WrongFileModeError", p + 8)
        ELSE Raise("TokenizationError", p)

\* tokenize_header; text = the stream is a text stream, so that read
\* returns str and never equals a bytes literal
tokenize_header(s, text, p) ==
    LET header == ReadN(s, p, 8)
    IN  IF ~text /\ header = Keywords.ROFF_BIN
        THEN IF Rd(s, p + 8) # NUL THEN Raise("TokenizationError", p)
             ELSE Emit(Token("ROFF_BIN", p, p + 8),
                       TState("body", p + 9, "NONE", 0, NoToken))
        ELSE IF text /\ header = Keywords.ROFF_ASC
        THEN Emit(Token("ROFF_ASC", p, p + 8),
                  TState("body", p + 8, "NONE", 0, NoToken))
        ELSE IF header \in {Keywords.ROFF_ASC, Keywords.ROFF_BIN}
        THEN Raise("WrongFileModeError", p + 8)
        ELSE Raise("TokenizationError", p)

\* the state of iter(RoffTokenizer(stream)) before its first token
TokenizerStart == TState("header", 0, "NONE", 0, NoToken)

\* next(iter(RoffTokenizer)): m is the body tokenizer chosen by
\* initialize_body_tokenizer ("none" before the header), e its endianess
tokenizer_next(s, text, m, ts, e) ==
    IF ts.at = "header" THEN tokenize_header(s, text, ts.pos)
    ELSE body_next(m, s, ts, e)

\* initialize_body_tokenizer(header.kind)
initialize_body_tokenizer(header_kind) ==
    IF header_kind = "ROFF_BIN" THEN "bin" ELSE "txt"


(***************************************************************************)
(* Values                                                                  *)
(*                                                                         *)
(* A decoded value is [k, t, v]:                                           *)
(*   k = "int" (np.int32), "float" (np.float32), "double" (np.float64),    *)
(*       "bool", "str", "bytes" (a bytes object, of any length): v is the  *)
(*       integer, the boolean or the sequence of codes; a floating point   *)
(*       number is held as twice its value (v = 3 is 1.5), and one that    *)
(*       is no multiple of 0.5 in HalfRange as k = "other" with the text   *)
(*       or bytes it came from;                                            *)
(*   k = "array": a numpy array, t the kind of its elements, v the         *)
(*       sequence of their payloads.                                       *)
(***************************************************************************)
Val(k, v) == [k |-> k, t |-> "none", v |-> v]
ArrayVal(t, v) == [k |-> "array", t |-> t, v |-> v]
NoVal == Val("none", 0)

\* the floating point numbers the model knows exactly: h stands for h / 2
HalfRange == -4..4

\* np.float64(h / 2).tobytes() and np.float32(h / 2).tobytes(), little endian
DoubleBytes(h) ==
    CASE h = -4 -> <<0, 0, 0, 0, 0, 0, 0, 192>>
      [] h = -3 -> <<0, 0, 0, 0, 0, 0, 248, 191>>
      [] h = -2 -> <<0, 0, 0, 0, 0, 0, 240, 191>>
      [] h = -1 -> <<0, 0, 0, 0, 0, 0, 224, 191>>
      [] h = 0 -> <<0, 0, 0, 0, 0, 0, 0, 0>>
      [] h = 1 -> <<0, 0, 0, 0, 0, 0, 224, 63>>
      [] h = 2 -> <<0, 0, 0, 0, 0, 0, 240, 63>>
      [] h = 3 -> <<0, 0, 0, 0, 0, 0, 248, 63>>
      [] h = 4 -> <<0, 0, 0, 0, 0, 0, 0, 64>>

FloatBytes(h) ==
    CASE h = -4 -> <<0, 0, 0, 192>>
      [] h = -3 -> <<0, 0, 192, 191>>
      [] h = -2 -> <<0, 0, 128, 191>>
      [] h = -1 -> <<0, 0, 0, 191>>
      [] h = 0 -> <<0, 0, 0, 0>>
      [] h = 1 -> <<0, 0, 0, 63>>
      [] h = 2 -> <<0, 0, 128, 63>>
      [] h = 3 -> <<0, 0, 192, 63>>
      [] h = 4 -> <<0, 0, 0, 64>>

(***************************************************************************)
(* Decoding one value (numpy)                                              *)
(***************************************************************************)
Ok(val) == [ok |-> TRUE, val |-> val, err |-> "none"]
Error(err) == [ok |-> FALSE, val |-> NoVal, err |-> err]

\* np.ndarray((1,), int32 of the byte order, bytes)[0]: two's complement
int32_from_buffer(b, endianess) ==
    LET be == IF endianess = "big" THEN b ELSE Reverse(b)
        hi == IF be[1] >= 128 THEN be[1] - 256 ELSE be[1]
    IN  hi * 16777216 + be[2] * 65536 + be[3] * 256 + be[4]

\* np.ndarray((1,), float32 or float64 of the byte order, bytes)[0]
float_from_buffer(b, kind, endianess) ==
    LET le == IF endianess = "big" THEN Reverse(b) ELSE b
        hs == {h \in HalfRange :
                 le = IF kind = "double" THEN DoubleBytes(h) ELSE FloatBytes(h)}
    IN  IF hs = {} THEN Val("other", le) ELSE Val(kind, CHOOSE h \in hs : TRUE)

ScalarKind(typ) ==
    CASE typ = "INT" -> "int" [] typ = "FLOAT" -> "float"
      [] typ = "DOUBLE" -> "double" [] typ = "BOOL" -> "bool"
      [] typ = "CHAR" -> "str" [] OTHER -> "bytes"

\* one element of dtype[endianess][typ] read from a buffer of bytes
from_buffer(b, typ, endianess) ==
    CASE typ = "INT" -> Val("int", int32_from_buffer(b, endianess))
      [] typ \in {"FLOAT", "DOUBLE"} -> float_from_buffer(b, ScalarKind(typ), endianess)
      [] typ = "BOOL" -> Val("bool", b[1] # 0)
      [] OTHER -> Val("bytes", b)

IsDigits(t) == t # <<>> /\ \A i \in 1..Len(t) : t[i] \in DigitChars

RECURSIVE DigitsValue(_, _)
DigitsValue(t, acc) ==
    IF t = <<>> THEN acc ELSE DigitsValue(Tail(t), acc * 10 + (Head(t) - 48))

\* numerals of more than MaxDigits digits are outside the model: they are
\* reported as an OverflowError, as the longest of them are
MaxDigits == 9

\* int(text), as np.int32(text) and np.uint8(text) call it
int_of_text(t) ==
    LET neg == t # <<>> /\ t[1] = MINUS
        d == IF neg THEN Tail(t) ELSE t
    IN  IF ~IsDigits(d) THEN Error("ValueError")
        ELSE IF Len(d) > MaxDigits THEN Error("OverflowError")
        ELSE Ok(Val("int", IF neg THEN 0 - DigitsValue(d, 0) ELSE DigitsValue(d, 0)))

\* the index of the first element of t in cs, Len(t) + 1 if there is none
RECURSIVE IndexOf(_, _, _)
IndexOf(t, cs, i) ==
    IF i > Len(t) THEN i ELSE IF t[i] \in cs THEN i ELSE IndexOf(t, cs, i + 1)

StripZeros(t) ==
    LET nz == {i \in 1..Len(t) : t[i] # 48}
    IN  IF nz = {} THEN <<>> ELSE SubSeq(t, 1, CHOOSE i \in nz : \A j \in nz : j <= i)

\* float(text), as np.float32(text) and np.float64(text) call it
float_of_text(t, kind) ==
    LET neg == t # <<>> /\ t[1] = MINUS
        u == IF neg THEN Tail(t) ELSE t
        ei == IndexOf(u, {101, 69}, 1)
        mant == SubSeq(u, 1, ei - 1)
        expo == SubSeq(u, ei + 1, Len(u))
        expd == IF expo # <<>> /\ expo[1] \in {43, 45} THEN Tail(expo) ELSE expo
        di == IndexOf(mant, {46}, 1)
        ip == SubSeq(mant, 1, di - 1)
        fp == SubSeq(mant, di + 1, Len(mant))
        valid == /\ (ip = <<>> \/ IsDigits(ip)) /\ (fp = <<>> \/ IsDigits(fp))
                 /\ (ip # <<>> \/ fp # <<>>)
                 /\ (ei > Len(u) \/ IsDigits(expd))
        f == StripZeros(fp)
        whole == IF ip = <<>> THEN 0 ELSE DigitsValue(ip, 0)
        h == 2 * whole + (IF f = <<53>> THEN 1 ELSE 0)
    IN  IF ~valid THEN Error("ValueError")
        ELSE IF ei > Len(u) /\ Len(ip) <= 1 /\ f \in {<<>>, <<53>>} /\ h \in HalfRange
             THEN Ok(Val(kind, IF neg THEN 0 - h ELSE h))
        ELSE Ok(Val("other", t))

\* dtype_little[typ](text): the numpy scalar type called on the text
scalar_of_text(t, typ) ==
    LET byte(r) == IF ~r.ok THEN r
                   ELSE IF r.val.v \notin 0..255 THEN Error("OverflowError")
                   ELSE Ok(Val("bytes", <<r.val.v>>))
    IN  CASE typ = "INT" -> int_of_text(t)
          [] typ = "BYTE" -> byte(int_of_text(t))
          [] OTHER -> float_of_text(t, ScalarKind(typ))


(***************************************************************************)
(* RoffTagKeyParser                                                        *)
(*                                                                         *)
(* toks is the token sequence the tagkey parser reads (its tee branch), i  *)
(* the index of its next token, s the stream; c is what the tagkey parser  *)
(* shares with its RoffParser and the stream at the moment of the call:    *)
(*   c.endianess, c.is_binary_file, and c.text (the stream yields str).    *)
(* A parse result is [ok, name, val, i, err].                              *)
(***************************************************************************)
Ctx(endianess, is_binary_file, text) ==
    [endianess |-> endianess, is_binary_file |-> is_binary_file, text |-> text]

Parsed(name, val, i) ==
    [ok |-> TRUE, name |-> name, val |-> val, i |-> i, err |-> "none"]
ParseError(err) ==
    [ok |-> FALSE, name |-> <<>>, val |-> NoVal, i |-> 0, err |-> err]

\* as_ascii: bytes are decoded as ascii, str is left alone
as_ascii(b, c) ==
    IF ~c.text /\ \E j \in 1..Len(b) : b[j] >= 128 THEN Error("UnicodeDecodeError")
    ELSE Ok(Val("str", b))

\* next(self.tokens) in a generator: running out of tokens is a RuntimeError
parse_name(toks, i, s, c) ==
    LET named(r) == IF r.ok THEN Parsed(r.val.v, NoVal, i + 1) ELSE ParseError(r.err)
    IN  IF i > Len(toks) THEN ParseError("RuntimeError")
        ELSE IF toks[i].kind # "NAME" THEN ParseError("RoffTypeError")
        ELSE named(as_ascii(get_value(toks[i], s), c))

parse_boolean_value(toks, i, s, c) ==
    LET boolean(value) ==
            IF ~value.ok THEN ParseError(value.err)
            ELSE IF value.val.v = 1 THEN Parsed(<<>>, Val("bool", TRUE), i + 1)
            ELSE IF value.val.v = 0 THEN Parsed(<<>>, Val("bool", FALSE), i + 1)
            ELSE ParseError("RoffTypeError")
        of(val_str) ==
            IF Len(val_str) # 1 THEN ParseError("RoffSyntaxError")
            ELSE boolean(IF c.is_binary_file
                         THEN Ok(Val("int", from_bytes(val_str, c.endianess)))
                         ELSE int_of_text(val_str))
    IN  IF i > Len(toks) THEN ParseError("RuntimeError")
        ELSE of(get_value(toks[i], s))

\* parse_numeric_value(dtype[endianess][typ]): dtype["little"] holds numpy
\* scalar types, dtype["big"] holds np.dtype objects, which cannot be called
parse_numeric_value(toks, i, s, typ, c) ==
    LET text_value(r) ==
            IF r.ok THEN Parsed(<<>>, r.val, i + 1)
            ELSE IF r.err = "ValueError" THEN ParseError("RoffSyntaxError")
            ELSE ParseError(r.err)
        of(tok, b) ==
            CASE tok.kind = "NUMERIC_VALUE" ->
                    IF c.endianess = "big" THEN ParseError("TypeError")
                    ELSE text_value(scalar_of_text(b, typ))
              [] tok.kind = "BINARY_NUMERIC_VALUE" ->
                    IF Len(b) < tokenlen(typ) THEN ParseError("TypeError")
                    ELSE Parsed(<<>>, from_buffer(SubSeq(b, 1, tokenlen(typ)), typ,
                                                  c.endianess), i + 1)
              [] tok.kind = "STRING_LITERAL" -> ParseError("RoffTypeError")
              [] OTHER -> ParseError("ParsingException")
    IN  IF i > Len(toks) THEN ParseError("RuntimeError")
        ELSE of(toks[i], get_value(toks[i], s))

parse_string_literal(toks, i, s, c) ==
    LET literal(r) == IF r.ok THEN Parsed(<<>>, r.val, i + 1) ELSE ParseError(r.err)
    IN  IF i > Len(toks) THEN ParseError("RuntimeError")
        ELSE IF toks[i].kind # "STRING_LITERAL" THEN ParseError("RoffTypeError")
        ELSE literal(as_ascii(get_value(toks[i], s), c))

parse_value(toks, i, s, typ, c) ==
    CASE typ = "CHAR" -> parse_string_literal(toks, i, s, c)
      [] typ = "BOOL" -> parse_boolean_value(toks, i, s, c)
      [] OTHER -> parse_numeric_value(toks, i, s, typ, c)

parse_simple_tagkey_body(toks, i, s, typ, c) ==
    LET valued(name, value) ==
            IF ~value.ok THEN value ELSE Parsed(name.name, value.val, value.i)
        named(name) ==
            IF ~name.ok THEN name ELSE valued(name, parse_value(toks, name.i, s, typ, c))
    IN  named(parse_name(toks, i, s, c))

\* [next(self.parse_value(typ)) for _ in range(number)]
RECURSIVE parse_elements(_, _, _, _, _, _, _)
parse_elements(toks, i, s, typ, c, number, acc) ==
    LET next(r) ==
            IF ~r.ok THEN r
            ELSE parse_elements(toks, r.i, s, typ, c, number - 1, Append(acc, r.val))
    IN  IF number <= 0 THEN Parsed(<<>>, Val("list", acc), i)
        ELSE next(parse_value(toks, i, s, typ, c))

RECURSIVE Concat(_)
Concat(ss) == IF ss = <<>> THEN <<>> ELSE Head(ss) \o Concat(Tail(ss))

\* np.array(values): the element kind is that of the values, and float64
\* when there are none
np_array(vals) ==
    IF vals = <<>> THEN ArrayVal("double", <<>>)
    ELSE ArrayVal(vals[1].k, [j \in 1..Len(vals) |-> vals[j].v])

\* np.ndarray(number, dtype[endianess][typ], buffer)
np_ndarray(number, typ, endianess, buffer) ==
    LET w == tokenlen(typ)
    IN  IF typ = "CHAR" THEN Error("KeyError")
        ELSE IF number < 0 THEN Error("ValueError")
        ELSE IF Len(buffer) < number * w THEN Error("TypeError")
        ELSE Ok(ArrayVal(ScalarKind(typ), [j \in 1..number |->
                    from_buffer(SubSeq(buffer, (j - 1) * w + 1, j * w), typ, endianess).v]))

\* parse_array_values, with the value of a blob decoded at once (the caller
\* unpacks the LazyTuple as soon as it gets it)
parse_array_values(toks, i, s, typ, number, c) ==
    LET blob(a) == IF ~a.ok THEN ParseError(a.err) ELSE Parsed(<<>>, a.val, i + 1)
        values(r) ==
            IF ~r.ok THEN r
            ELSE IF typ = "BYTE"
                 THEN Parsed(<<>>, Val("bytes", Concat([j \in 1..Len(r.val.v) |->
                                                          r.val.v[j].v])), r.i)
            ELSE Parsed(<<>>, np_array(r.val.v), r.i)
    IN  IF i > Len(toks) THEN ParseError("RuntimeError")
        ELSE IF toks[i].kind = "ARRAYBLOB"
        THEN IF typ = "BYTE" THEN Parsed(<<>>, Val("bytes", get_value(toks[i], s)), i + 1)
             ELSE blob(np_ndarray(number, typ, c.endianess, get_value(toks[i], s)))
        ELSE values(parse_elements(toks, i, s, typ, c, number, <<>>))

parse_simple_type(toks, i) ==
    IF i > Len(toks) THEN ParseError("RuntimeError")
    ELSE IF toks[i].kind \in SimpleTypeSet THEN Parsed(<<>>, NoVal, i + 1)
    ELSE ParseError("RoffSyntaxError")

parse_array_tagkey_body(toks, i, s, c) ==
    LET valued(name, values) ==
            IF ~values.ok THEN values ELSE Parsed(name.name, values.val, values.i)
        counted(name, number) ==
            IF ~number.ok THEN number
            ELSE valued(name, parse_array_values(toks, number.i, s, toks[i].kind,
                                                 number.val.v, c))
        named(name) ==
            IF ~name.ok THEN name
            ELSE counted(name, parse_numeric_value(toks, name.i, s, "INT", c))
        typed(typ) ==
            IF ~typ.ok THEN typ ELSE named(parse_name(toks, typ.i, s, c))
    IN  typed(parse_simple_type(toks, i))

parse_tagkey(toks, i, s, c) ==
    IF i > Len(toks) THEN ParseError("RuntimeError")
    ELSE IF toks[i].kind = "ARRAY" THEN parse_array_tagkey_body(toks, i + 1, s, c)
    ELSE IF toks[i].kind \in SimpleTypeSet
         THEN parse_simple_tagkey_body(toks, i + 1, s, toks[i].kind, c)
    ELSE ParseError("RoffSyntaxError")

\* a RoffTagKeyParser that goes on beyond the ENDTAG of its tag group
tagkey_next_beyond_endtag(toks, i, s, c) == parse_tagkey(toks, i, s, c)

\* next(iter(RoffTagKeyParser)): ok = a tagkey, err = "StopIteration" when
\* the next token is ENDTAG
tagkey_next(toks, i, s, c) ==
    IF i > Len(toks) THEN ParseError("RuntimeError")
    ELSE IF toks[i].kind = "ENDTAG" THEN ParseError("StopIteration")
    ELSE parse_tagkey(toks, i, s, c)


(***************************************************************************)
(* RoffParser over RoffTokenizer                                           *)
(*                                                                         *)
(* A tokenizer is [ts, m, endianess, body_endianess, swaps]: the generator  *)
(* state, the body tokenizer ("none" before the header is read), the       *)
(* endianess of the RoffTokenizer and that of its body tokenizer, and the  *)
(* number of calls of swap_endianess so far.                               *)
(* A parser is [started, endianess, is_binary_file, swaps].                *)
(***************************************************************************)
\* RoffTokenizer(stream) with iter() called on it
NewTokenizer ==
    [ts |-> TokenizerStart, m |-> "none", endianess |-> "little",
     body_endianess |-> "none", swaps |-> 0]

\* RoffParser(tokens, stream)
NewParser ==
    [started |-> FALSE, endianess |-> "little", is_binary_file |-> FALSE, swaps |-> 0]

Swapped(endianess) == IF endianess = "little" THEN "big" ELSE "little"

\* a swap_endianess that leaves the body tokenizer alone
Tokenizer_swap_top_only(tk) ==
    [tk EXCEPT !.endianess = Swapped(tk.endianess), !.swaps = tk.swaps + 1]

\* RoffTokenizer.swap_endianess
Tokenizer_swap_endianess(tk) ==
    [tk EXCEPT !.endianess = Swapped(tk.endianess),
               !.body_endianess = IF tk.m = "none" THEN "none"
                                  ELSE Swapped(tk.endianess),
               !.swaps = tk.swaps + 1]

\* a swap_endianess of the parser that keeps the byte order
Parser_keep_endianess(pa) == [pa EXCEPT !.swaps = pa.swaps + 1]

\* RoffParser.swap_endianess
Parser_swap_endianess(pa) ==
    [pa EXCEPT !.endianess = Swapped(pa.endianess), !.swaps = pa.swaps + 1]

\* next(tokens) on iter(RoffTokenizer): [res, tok, err, tk]
pull(s, text, tk) ==
    LET pulled(r, header) ==
            [res |-> r.res, tok |-> r.tok, err |-> r.err,
             tk |-> [tk EXCEPT !.ts = r.ts,
                               !.m = IF header THEN initialize_body_tokenizer(r.tok.kind)
                                     ELSE tk.m,
                               !.body_endianess =
                                     IF header /\ r.tok.kind = "ROFF_BIN" THEN tk.endianess
                                     ELSE tk.body_endianess]]
        next(r) == pulled(r, tk.ts.at = "header" /\ r.res = "tok")
    IN  next(tokenizer_next(s, text, tk.m, tk.ts, tk.body_endianess))

\* what next(iter(RoffParser)) does: res = "tag" (name and toks, the tokens
\* of its tee branch up to and with ENDTAG), "stop" or "err"
TagResult(res, err, name, toks, tk, pa) ==
    [res |-> res, err |-> err, name |-> name, toks |-> toks, tk |-> tk, pa |-> pa]

\* RoffParser.__iter__ and parse_tag, resumed at one of
\*   "header"  the header token is parsed
\*   "tag"     parse_tag: next(parse_one_of(TAG)(tokens))
\*   "name"    parse_tag: next(parse_name(tokens, stream))
\*   "endtag"  next(parse_one_of(ENDTAG)(dropwhile(not ENDTAG, tokens))): the
\*             tokens are pulled from the tokenizer until ENDTAG has come
\* with the next token of the tokenizer
RECURSIVE parse_tag(_, _, _, _, _, _, _)
parse_tag(s, text, tk, pa, at, name, acc) ==
    LET failed(err, t) == TagResult("err", err, name, acc, t, pa)
        header(h) ==
            IF h.res # "tok" THEN failed(h.err, h.tk)
            ELSE parse_tag(s, text, h.tk,
                           [pa EXCEPT !.started = TRUE,
                                      !.is_binary_file = (h.tok.kind = "ROFF_BIN")],
                           "tag", name, acc)
        tag(t1) ==
            IF t1.res = "stop" THEN TagResult("stop", "none", name, acc, t1.tk, pa)
            ELSE IF t1.res = "err" THEN failed(t1.err, t1.tk)
            ELSE IF t1.tok.kind # "TAG" THEN failed("RoffSyntaxError", t1.tk)
            ELSE parse_tag(s, text, t1.tk, pa, "name", name, acc)
        named(t2, n) ==
            IF ~n.ok THEN failed(n.err, t2.tk)
            ELSE parse_tag(s, text, t2.tk, pa, "endtag", n.val.v, acc)
        tag_name(t2) ==
            IF t2.res = "stop" THEN failed("RuntimeError", t2.tk)
            ELSE IF t2.res = "err" THEN failed(t2.err, t2.tk)
            ELSE IF t2.tok.kind # "NAME" THEN failed("RoffTypeError", t2.tk)
            ELSE named(t2, as_ascii(get_value(t2.tok, s),
                                    Ctx(pa.endianess, pa.is_binary_file, text)))
        endtag(r) ==
            IF r.res = "err" THEN failed(r.err, r.tk)
            ELSE IF r.res = "stop" THEN failed("RoffSyntaxError", r.tk)
            ELSE IF r.tok.kind = "ENDTAG"
                 THEN TagResult("tag", "none", name, Append(acc, r.tok), r.tk, pa)
            ELSE parse_tag(s, text, r.tk, pa, "endtag", name, Append(acc, r.tok))
        next(r) == CASE at = "header" -> header(r)
                     [] at = "tag" -> tag(r)
                     [] at = "name" -> tag_name(r)
                     [] OTHER -> endtag(r)
    IN  next(pull(s, text, tk))

\* next(iter(RoffParser)): the header is parsed on the first call
Parser_next(s, text, tk, pa) ==
    parse_tag(s, text, tk, pa, IF pa.started THEN "tag" ELSE "header", <<>>, <<>>)

(***************************************************************************)
(* EndianessHandler                                                        *)
(*                                                                         *)
(* A tag handed to the consumer is                                         *)
(*   [name, lazy, toks, i, items, keys, closed, at_yield, at_pull]:        *)
(* lazy tags read their tagkeys from toks (at index i) when asked, the     *)
(* filedata tag of the handler holds its tagkeys in items; keys are the    *)
(* tagkeys the consumer has got, closed says the tag group is exhausted.   *)
(* at_yield is the parser's endianess when the parser yielded the tag, and *)
(* at_pull the parser's endianess when each of keys was asked for.         *)
(* A tagkey is [name, val].                                                *)
(***************************************************************************)
Item(name, val) == [name |-> name, val |-> val]

LazyTag(name, toks, endianess) ==
    [name |-> name, lazy |-> TRUE, toks |-> toks, i |-> 1, items |-> <<>>,
     keys |-> <<>>, closed |-> FALSE, at_yield |-> endianess, at_pull |-> <<>>]

DictTag(name, items, endianess) ==
    [name |-> name, lazy |-> FALSE, toks |-> <<>>, i |-> 1, items |-> items,
     keys |-> <<>>, closed |-> FALSE, at_yield |-> endianess, at_pull |-> <<>>]

\* a RoffTagKeyParser that keeps the byte order its tag was yielded with
tagkey_ctx_at_yield(tag, pa, txt) == Ctx(tag.at_yield, pa.is_binary_file, txt)

\* what a RoffTagKeyParser finds in its RoffParser and its stream when it is
\* asked for a tagkey
tagkey_ctx(tag, pa, txt) == Ctx(pa.endianess, pa.is_binary_file, txt)

Filedata == <<102, 105, 108, 101, 100, 97, 116, 97>>
Byteswaptest == <<98, 121, 116, 101, 115, 119, 97, 112, 116, 101, 115, 116>>

\* list(tag[1]): every tagkey of the tag, parsed now
RECURSIVE list_tagkeys(_, _, _, _, _)
list_tagkeys(toks, i, s, c, acc) ==
    LET next(r) ==
            IF r.ok THEN list_tagkeys(toks, r.i, s, c, Append(acc, Item(r.name, r.val)))
            ELSE IF r.err = "StopIteration"
                 THEN [ok |-> TRUE, items |-> acc, err |-> "none"]
            ELSE [ok |-> FALSE, items |-> acc, err |-> r.err]
    IN  next(tagkey_next(toks, i, s, c))

\* d[name] = val on a dict kept as the sequence of its items
dict_set(d, name, val) ==
    IF \E j \in 1..Len(d) : d[j].name = name
    THEN [j \in 1..Len(d) |-> IF d[j].name = name THEN Item(name, val) ELSE d[j]]
    ELSE Append(d, Item(name, val))

\* dict(items)
RECURSIVE dict(_, _)
dict(items, d) ==
    IF items = <<>> THEN d
    ELSE dict(Tail(items), dict_set(d, Head(items).name, Head(items).val))

dict_has(d, name) == \E j \in 1..Len(d) : d[j].name = name
dict_get(d, name) == d[CHOOSE j \in 1..Len(d) : d[j].name = name].val

\* one array element != 1
not_equal_one_element(t, v) ==
    CASE t = "int" -> IF v # 1 THEN "true" ELSE "false"
      [] t = "bool" -> IF v # TRUE THEN "true" ELSE "false"
      [] t \in {"float", "double"} -> IF v # 2 THEN "true" ELSE "false"
      [] OTHER -> "true"

\* a test that finds every value equal to 1
not_equal_one_never(val) == "false"

\* value != 1, as Python and numpy decide it; "error" when the answer has
\* no truth value (an array that does not hold exactly one element)
not_equal_one(val) ==
    CASE val.k = "array" ->
            IF Len(val.v) # 1 THEN "error" ELSE not_equal_one_element(val.t, val.v[1])
      [] OTHER -> not_equal_one_element(val.k, val.v)

\* the outcome of check_endianess:
\* [res ("tag" or "err"), err, tag, hd, pa, tk, warned]
Checked(res, err, tag, hd, pa, tk, warned) ==
    [res |-> res, err |-> err, tag |-> tag, hd |-> hd, pa |-> pa, tk |-> tk,
     warned |-> warned]

\* check_filedata that hands the tag on when byteswaptest is missing
check_filedata_without_test(name, toks, s, text, hd, pa, tk) ==
    LET none == LazyTag(name, toks, pa.endianess)
        listed(l) ==
            IF ~l.ok THEN Checked("err", l.err, none, hd, pa, tk, FALSE)
            ELSE Checked("tag", "none", DictTag(name, dict(l.items, <<>>), pa.endianess),
                         [hd EXCEPT !.found_byteswaptest = TRUE], pa, tk, FALSE)
    IN  listed(list_tagkeys(toks, 1, s, tagkey_ctx(none, pa, text), <<>>))

\* check_endianess, for the first filedata tag
check_filedata(name, toks, s, text, hd, pa, tk) ==
    LET none == LazyTag(name, toks, pa.endianess)
        found == [hd EXCEPT !.found_byteswaptest = TRUE]
        failed(err, h) == Checked("err", err, none, h, pa, tk, FALSE)
        tested(tagkeys, ne) ==
            IF ne = "error" THEN failed("ValueError", found)
            ELSE IF ne = "true"
                 THEN Checked("tag", "none",
                              DictTag(name, dict_set(tagkeys, Byteswaptest, Val("int", 1)),
                                      pa.endianess),
                              found, Parser_swap_endianess(pa),
                              Tokenizer_swap_endianess(tk), FALSE)
            ELSE Checked("tag", "none", DictTag(name, tagkeys, pa.endianess), found,
                         pa, tk, FALSE)
        filedata(tagkeys) ==
            IF ~dict_has(tagkeys, Byteswaptest) THEN failed("RoffFormatError", hd)
            ELSE tested(tagkeys, not_equal_one(dict_get(tagkeys, Byteswaptest)))
        listed(l) == IF ~l.ok THEN failed(l.err, hd) ELSE filedata(dict(l.items, <<>>))
    IN  listed(list_tagkeys(toks, 1, s, tagkey_ctx(none, pa, text), <<>>))

\* check_endianess that takes every filedata tag for the first one
check_endianess_any_filedata(name, toks, s, text, hd, pa, tk) ==
    LET none == LazyTag(name, toks, pa.endianess)
    IN  IF name = Filedata
        THEN check_filedata(name, toks, s, text, hd, pa, tk)
        ELSE IF ~hd.found_byteswaptest /\ ~hd.has_warned /\ pa.is_binary_file
             THEN Checked("tag", "none", none, [hd EXCEPT !.has_warned = TRUE],
                          pa, tk, TRUE)
        ELSE Checked("tag", "none", none, hd, pa, tk, FALSE)

\* check_endianess that does not remember its warning
check_endianess_forgetful(name, toks, s, text, hd, pa, tk) ==
    LET none == LazyTag(name, toks, pa.endianess)
    IN  IF name = Filedata
        THEN IF hd.found_byteswaptest
             THEN Checked("err", "RoffFormatError", none, hd, pa, tk, FALSE)
             ELSE check_filedata(name, toks, s, text, hd, pa, tk)
        ELSE IF ~hd.found_byteswaptest /\ pa.is_binary_file
             THEN Checked("tag", "none", none, hd, pa, tk, TRUE)
        ELSE Checked("tag", "none", none, hd, pa, tk, FALSE)

check_endianess(name, toks, s, text, hd, pa, tk) ==
    LET none == LazyTag(name, toks, pa.endianess)
    IN  IF name = Filedata
        THEN IF hd.found_byteswaptest
             THEN Checked("err", "RoffFormatError", none, hd, pa, tk, FALSE)
             ELSE check_filedata(name, toks, s, text, hd, pa, tk)
        ELSE IF ~hd.found_byteswaptest /\ ~hd.has_warned /\ pa.is_binary_file
             THEN Checked("tag", "none", none, [hd EXCEPT !.has_warned = TRUE],
                          pa, tk, TRUE)
        ELSE Checked("tag", "none", none, hd, pa, tk, FALSE)

\* EndianessHandler(parser, tokenizer)
NewHandler == [found_byteswaptest |-> FALSE, has_warned |-> FALSE]

\* next() on iter(EndianessHandler): res is "tag", "stop" or "err"
Handler_next(s, text, hd, pa, tk) ==
    LET checked(t) ==
            IF t.res = "tag" THEN check_endianess(t.name, t.toks, s, text, hd, t.pa, t.tk)
            ELSE Checked(t.res, t.err, LazyTag(<<>>, <<>>, t.pa.endianess), hd, t.pa, t.tk,
                         FALSE)
    IN  checked(Parser_next(s, text, tk, pa))

(***************************************************************************)
(* read                                                                    *)
(***************************************************************************)
\* what read makes of the values collected under one name: the value itself
\* when there is one, the list of them otherwise
Collapsed(vals) ==
    IF Len(vals) = 1 THEN [list |-> FALSE, v |-> vals[1]] ELSE [list |-> TRUE, v |-> vals]

KeyNames(keys) == {keys[j].name : j \in 1..Len(keys)}

\* the values of the tagkeys called name, in order
RECURSIVE ValuesOf(_, _)
ValuesOf(keys, name) ==
    IF keys = <<>> THEN <<>>
    ELSE (IF Head(keys).name = name THEN <<Head(keys).val>> ELSE <<>>)
         \o ValuesOf(Tail(keys), name)

\* dict(result_tagkey) after the lists of length one are replaced
tag_group_dict(keys) == [name \in KeyNames(keys) |-> Collapsed(ValuesOf(keys, name))]

\* the tag groups called name, in order
RECURSIVE GroupsOf(_, _)
GroupsOf(tags, name) ==
    IF tags = <<>> THEN <<>>
    ELSE (IF Head(tags).name = name THEN <<tag_group_dict(Head(tags).keys)>> ELSE <<>>)
         \o GroupsOf(Tail(tags), name)

\* the dictionary read returns for the tags it has consumed
read_result(tags) ==
    [name \in {tags[j].name : j \in 1..Len(tags)} |-> Collapsed(GroupsOf(tags, name))]

(***************************************************************************)
(* Files to read: the byte and character streams of the test generators,   *)
(* built from tag groups [name, keys] with tagkeys [name, val].               *)
(***************************************************************************)
\* int.to_bytes(4, "little", signed=True), also np.int32(v).tobytes()
int32_tobytes(v) ==
    LET u == IF v >= 0 THEN v ELSE 0 - (v + 1)
        byte(j) == (u \div (256 ^ j)) % 256
    IN  [j \in 1..4 |-> IF v >= 0 THEN byte(j - 1) ELSE 255 - byte(j - 1)]

int_bytes(v, order) ==
    IF order = "little" THEN int32_tobytes(v) ELSE Reverse(int32_tobytes(v))

\* str(v) of a natural number
RECURSIVE str_nat(_)
str_nat(v) == IF v < 10 THEN <<48 + v>> ELSE Append(str_nat(v \div 10), 48 + (v % 10))

\* str(v) of an integer
str_int(v) == IF v < 0 THEN <<MINUS>> \o str_nat(0 - v) ELSE str_nat(v)

FileTag(name, keys) == [name |-> name, keys |-> keys]

\* binary_simple_tag_keys and binary_array_tag_keys, for int and char
binary_tag_key(k, order) ==
    IF k.val.k = "array"
    THEN Keywords.ARRAY \o <<NUL>> \o Keywords.INT \o <<NUL>> \o k.name \o <<NUL>>
         \o int_bytes(Len(k.val.v), order)
         \o Concat([j \in 1..Len(k.val.v) |-> int_bytes(k.val.v[j], order)])
    ELSE IF k.val.k = "int"
    THEN Keywords.INT \o <<NUL>> \o k.name \o <<NUL>> \o int_bytes(k.val.v, order)
    ELSE Keywords.CHAR \o <<NUL>> \o k.name \o <<NUL>> \o k.val.v \o <<NUL>>

binary_tag_group(tag, order) ==
    Keywords.TAG \o <<NUL>> \o tag.name \o <<NUL>>
    \o Concat([j \in 1..Len(tag.keys) |-> binary_tag_key(tag.keys[j], order)])
    \o Keywords.ENDTAG \o <<NUL>>

binary_file_contents(tags, order) ==
    Keywords.ROFF_BIN \o <<NUL>>
    \o Concat([j \in 1..Len(tags) |-> binary_tag_group(tags[j], order)])

\* ascii_simple_tag_keys and ascii_array_tag_keys, for int and char
ascii_tag_key(k) ==
    IF k.val.k = "array"
    THEN Keywords.ARRAY \o <<SPACE>> \o Keywords.INT \o <<SPACE>> \o k.name \o <<SPACE>>
         \o str_int(Len(k.val.v))
         \o Concat([j \in 1..Len(k.val.v) |-> <<SPACE>> \o str_int(k.val.v[j])])
    ELSE IF k.val.k = "int"
    THEN Keywords.INT \o <<SPACE>> \o k.name \o <<SPACE>> \o str_int(k.val.v)
    ELSE Keywords.CHAR \o <<SPACE>> \o k.name \o <<SPACE, QUOTE>> \o k.val.v \o <<QUOTE>>

ascii_tag_group(tag) ==
    Keywords.TAG \o <<SPACE>> \o tag.name
    \o Concat([j \in 1..Len(tag.keys) |-> <<SPACE>> \o ascii_tag_key(tag.keys[j])])
    \o <<SPACE>> \o Keywords.ENDTAG \o <<NEWLINE>>

ascii_file_contents(tags) ==
    Keywords.ROFF_ASC \o <<SPACE>>
    \o Concat([j \in 1..Len(tags) |-> ascii_tag_group(tags[j])])

\* the stream of a file of the given form
file_contents(tags, form) ==
    CASE form = "bin_little" -> binary_file_contents(tags, "little")
      [] form = "bin_big" -> binary_file_contents(tags, "big")
      [] OTHER -> ascii_file_contents(tags)

\* the tag groups the files are made of
TagPool ==
    LET x == <<120>>
        int(v) == Val("int", v)
    IN  { FileTag(Filedata, <<Item(Byteswaptest, int(1))>>),
          FileTag(Filedata, <<Item(Byteswaptest, int(1)), Item(x, int(1)), Item(x, int(2))>>),
          FileTag(Filedata, <<Item(x, int(5))>>),
          FileTag(Filedata, <<Item(Byteswaptest, int(2))>>),
          FileTag(<<116>>, <<Item(x, int(258)), Item(x, int(3))>>),
          FileTag(<<117>>, <<Item(<<97>>, ArrayVal("int", <<1, 2>>))>>) }

MaxTags == 3

\* the tags of a file whose consumer is not read
MaxLazyTags == 2

RECURSIVE SeqsUpTo(_, _)
SeqsUpTo(S, n) ==
    IF n = 0 THEN {<<>>}
    ELSE LET shorter == SeqsUpTo(S, n - 1)
         IN  shorter \cup {Append(q, e) : q \in shorter, e \in S}

Forms == {"bin_little", "bin_big", "asc"}

(***************************************************************************)
(* The state                                                               *)
(***************************************************************************)
VARIABLES
    given,      \* what the stream was made from: [tags, form]
    stream,     \* the content of the file
    text,       \* the file is open in text mode
    mode,       \* the consumer: "read", or "lazy" for a user of the iterators
    tk,         \* the RoffTokenizer
    pa,         \* the RoffParser
    hd,         \* the EndianessHandler
    tags,       \* the tags handed to the consumer so far
    status,     \* "opening", "running", "exhausted", "done", or the error raised
    warnings,   \* number of warnings emitted
    result,     \* the dictionaries returned by read so far
    files,      \* the files the call has opened, in order: [mode, closed]
    tokens      \* the tokens a user of iter(RoffTokenizer) has got so far

vars == <<given, stream, text, mode, tk, pa, hd, tags, status, warnings, result,
          files, tokens>>

\* the state in which a stream is about to be read
Fresh ==
    /\ text = FALSE
    /\ tk = NewTokenizer
    /\ pa = NewParser
    /\ hd = NewHandler
    /\ tags = <<>>
    /\ warnings = 0
    /\ result = <<>>
    /\ files = <<>>
    /\ tokens = <<>>

InitRead ==
    /\ given \in [tags : SeqsUpTo(TagPool, MaxTags), form : Forms]
    /\ stream = file_contents(given.tags, given.form)
    /\ mode \in {"read", "lazy"}
    /\ mode = "lazy" => Len(given.tags) <= MaxLazyTags
    /\ status = "opening"
    /\ Fresh

\* open(filelike, mode)
File(how) == [mode |-> how, closed |-> FALSE]

\* file_stream.close() on every file the call holds
Closed(fs) == [j \in 1..Len(fs) |-> [fs[j] EXCEPT !.closed = TRUE]]

\* make_filestream: the file is opened in binary mode, and in text mode
\* when the tokenizer says so; any other error of the tokenizer leaves
\* make_filestream with the file open
Open ==
    LET opened(r) ==
            /\ text' = (r.res = "err" /\ r.err = "WrongFileModeError")
            /\ status' = IF r.res = "err" /\ r.err # "WrongFileModeError" THEN r.err
                         ELSE "running"
            /\ files' = IF r.res = "err" /\ r.err = "WrongFileModeError"
                        THEN Closed(Append(files, File("rb"))) \o <<File("rt")>>
                        ELSE Append(files, File("rb"))
    IN  /\ status = "opening"
        /\ opened(pull(stream, FALSE, NewTokenizer))
        /\ UNCHANGED <<given, stream, mode, tk, pa, hd, tags, warnings, result, tokens>>

\* the consumer asks the EndianessHandler for the next tag; read does so
\* when it has exhausted the tag it got before
HandlerNext ==
    LET handed(r) ==
            /\ tk' = r.tk
            /\ pa' = r.pa
            /\ hd' = r.hd
            /\ tags' = IF r.res = "tag" THEN Append(tags, r.tag) ELSE tags
            /\ status' = CASE r.res = "tag" -> "running"
                           [] r.res = "stop" -> "exhausted"
                           [] OTHER -> r.err
            /\ warnings' = IF r.warned THEN warnings + 1 ELSE warnings
    IN  /\ status = "running"
        /\ mode = "read" => (IF Len(tags) = 0 THEN TRUE ELSE tags[Len(tags)].closed)
        /\ handed(Handler_next(stream, text, hd, pa, tk))
        /\ UNCHANGED <<given, stream, text, mode, result, files, tokens>>

\* the consumer asks tag j for its next tagkey; read asks the last tag only
PullKey(j) ==
    LET pulled(tag, r) ==
            /\ tags' = [tags EXCEPT ![j] =
                          IF r.ok
                          THEN [tag EXCEPT !.keys = Append(@, Item(r.name, r.val)),
                                           !.i = r.i,
                                           !.items = IF tag.lazy THEN <<>> ELSE Tail(@),
                                           !.at_pull = Append(@, pa.endianess)]
                          ELSE [tag EXCEPT !.closed = TRUE]]
            /\ status' = IF r.ok \/ r.err = "StopIteration" THEN status ELSE r.err
        next(tag) ==
            pulled(tag,
                   IF tag.lazy
                   THEN tagkey_next(tag.toks, tag.i, stream, tagkey_ctx(tag, pa, text))
                   ELSE IF tag.items = <<>> THEN ParseError("StopIteration")
                   ELSE Parsed(Head(tag.items).name, Head(tag.items).val, tag.i + 1))
    IN  /\ status = "running" \/ (mode = "lazy" /\ status = "exhausted")
        /\ mode = "read" => j = Len(tags)
        /\ ~tags[j].closed
        /\ next(tags[j])
        /\ UNCHANGED <<given, stream, text, mode, tk, pa, hd, warnings, result, files, tokens>>

\* read returns its dictionary when the handler is exhausted: the with block
\* of read ends and lazy_read goes on after its yield
Finish ==
    /\ mode = "read"
    /\ status = "exhausted"
    /\ result' = Append(result, read_result(tags))
    /\ status' = "done"
    /\ files' = Closed(files)
    /\ UNCHANGED <<given, stream, text, mode, tk, pa, hd, tags, warnings, tokens>>

NextRead ==
    \/ Open
    \/ HandlerNext
    \/ \E j \in 1..Len(tags) : PullKey(j)
    \/ Finish

SpecRead == InitRead /\ [][NextRead]_vars

(***************************************************************************)
(* Reading: what the files are expected to give                            *)
(***************************************************************************)
\* the names of a sequence of tags or tagkeys, in order
Names(items) == [j \in 1..Len(items) |-> items[j].name]

\* how many tags or tagkeys of the sequence are called name
Count(items, name) == Cardinality({j \in 1..Len(items) : items[j].name = name})

\* every tagkey of a delivered tag: those pulled and those waiting in it
AllItems(tag) == tag.keys \o tag.items

\* the places of the filedata tags in the file, and the first two of them
FiledataAt == {j \in 1..Len(given.tags) : given.tags[j].name = Filedata}

Least(S) == CHOOSE j \in S : \A i \in S : j <= i

FirstFiledata == Least(FiledataAt)

SecondFiledata == Least(FiledataAt \ {FirstFiledata})

HasByteswaptest(tag) == Count(tag.keys, Byteswaptest) > 0

\* the byte order the file was made in
FileOrder == IF given.form = "bin_big" THEN "big" ELSE "little"

\* the number of bytes of the file up to the end of its tag j
FileEnd(j) == Len(file_contents(SubSeq(given.tags, 1, j), given.form))

\* an int of the file read in the other byte order
Reordered(v) == int32_from_buffer(int_bytes(v, "big"), "little")

\* what a value of the file is when it is decoded in the given byte order
AsRead(val, order) ==
    IF given.form = "asc" \/ order = FileOrder THEN val
    ELSE IF val.k = "array"
         THEN ArrayVal(val.t, [j \in 1..Len(val.v) |-> Reordered(val.v[j])])
    ELSE Val(val.k, Reordered(val.v))

\* what the byteswaptest of the file's tag j decodes to in the default order
DecodedByteswaptest(j) ==
    LET vals == ValuesOf(given.tags[j].keys, Byteswaptest)
    IN  AsRead(vals[Len(vals)], "little").v

\* C4: when the byteswaptest of the first filedata tag decodes to a value
\* other than 1 the handler has swapped the parser once and the tokenizer
\* once, when it decodes to 1 it has swapped neither, and before that tag
\* nothing is swapped; every filedata tag delivered carries byteswaptest = 1.
C4_SwapsOnceAndNormalises ==
    /\ pa.swaps = tk.swaps
    /\ pa.endianess = tk.endianess
    /\ ~hd.found_byteswaptest => pa.swaps = 0 /\ pa.endianess = "little"
    /\ hd.found_byteswaptest =>
          IF DecodedByteswaptest(FirstFiledata) # 1
          THEN pa.swaps = 1 /\ pa.endianess = "big"
          ELSE pa.swaps = 0 /\ pa.endianess = "little"
    /\ \A j \in 1..Len(tags) :
          tags[j].name = Filedata =>
              LET items == AllItems(tags[j])
              IN  /\ Count(items, Byteswaptest) = 1
                  /\ \A i \in 1..Len(items) :
                        items[i].name = Byteswaptest => items[i].val = Val("int", 1)

\* a big-endian file whose filedata tag was delivered after one swap of each
C4_Witness ==
    /\ given.form = "bin_big"
    /\ hd.found_byteswaptest
    /\ pa.swaps = 1 /\ tk.swaps = 1
    /\ Len(tags) >= 1
    /\ tags[Len(tags)].name = Filedata
    /\ \E i \in 1..Len(AllItems(tags[Len(tags)])) :
          AllItems(tags[Len(tags)])[i] = Item(Byteswaptest, Val("int", 1))

\* the file has two filedata tags and the first two carry byteswaptest
TwoFiledata ==
    /\ Cardinality(FiledataAt) >= 2
    /\ HasByteswaptest(given.tags[FirstFiledata])
    /\ HasByteswaptest(given.tags[SecondFiledata])

\* C6: in a file with two filedata tags that both carry byteswaptest the
\* second one is never delivered and read returns no document; the handler
\* step that reaches the second one raises RoffFormatError, after the first
\* one was delivered, whatever lies before and between them.
C6_DuplicateFiledata ==
    /\ [](TwoFiledata =>
            /\ Len(tags) < SecondFiledata
            /\ result = <<>>
            /\ status \notin {"exhausted", "done"})
    /\ [][(TwoFiledata /\ Len(tags) = SecondFiledata - 1 /\ HandlerNext) =>
            /\ status' = "RoffFormatError"
            /\ tags' = tags
            /\ tags[FirstFiledata].name = Filedata]_vars

\* the second filedata tag was reached with another tag between the two
C6_Witness ==
    /\ TwoFiledata
    /\ SecondFiledata > FirstFiledata + 1
    /\ Len(tags) = SecondFiledata - 1
    /\ status = "RoffFormatError"

\* C7: a filedata tag without byteswaptest is never delivered; the handler
\* step that reaches it raises RoffFormatError and leaves the byte orders
\* of the parser and of the tokenizer as they were.
C7_MissingByteswaptest ==
    /\ [](\A j \in 1..Len(tags) :
            tags[j].name = Filedata => HasByteswaptest(given.tags[j]))
    /\ [][\A j \in FiledataAt :
            (~HasByteswaptest(given.tags[j]) /\ Len(tags) = j - 1 /\ HandlerNext) =>
                /\ status' = "RoffFormatError"
                /\ tags' = tags
                /\ pa'.endianess = pa.endianess /\ pa'.swaps = pa.swaps
                /\ tk'.endianess = tk.endianess /\ tk'.swaps = tk.swaps
                /\ tk.body_endianess # "none" =>
                      tk'.body_endianess = tk.body_endianess]_vars

\* a first filedata tag without byteswaptest was reached after another tag
C7_Witness ==
    /\ status = "RoffFormatError"
    /\ Len(tags) = 1
    /\ Len(given.tags) >= 2
    /\ given.tags[2].name = Filedata
    /\ ~HasByteswaptest(given.tags[2])
    /\ ~hd.found_byteswaptest

OppositeOrder ==
    /\ given.form = "bin_big"
    /\ Len(given.tags) >= 1
    /\ given.tags[1].name = Filedata
    /\ given.tags[1].keys[1] = Item(Byteswaptest, Val("int", 1))

\* C3: in a file whose byteswaptest is stored in the order opposite to the
\* active one, no token after the filedata tag is produced before the swap,
\* and every value after the byteswaptest key, in the filedata tag and in
\* the tags after it, is decoded in the swapped order, the order the file
\* was made in.
C3_SwapCoversRestOfStream ==
    OppositeOrder =>
        /\ tk.swaps = 0 => tk.ts.pos <= FileEnd(1)
        /\ \A j \in 2..Len(tags) : \A i \in 1..Len(tags[j].keys) :
              tags[j].keys[i] = given.tags[j].keys[i]
        /\ Len(tags) >= 1 =>
              \A i \in 1..Len(AllItems(tags[1])) :
                  LET item == AllItems(tags[1])[i]
                  IN  item.name # Byteswaptest =>
                          \E k \in 2..Len(given.tags[1].keys) :
                              given.tags[1].keys[k] = item

\* the number of entries a name of the document stands for
Entries(c) == IF c.list THEN Len(c.v) ELSE 1

\* the entries a name of the document stands for, in order
EntriesOf(c) == IF c.list THEN c.v ELSE <<c.v>>

\* C9: the document read returns has an entry for every tag of the file
\* and, within each, for every tagkey: a name stands for as many entries as
\* it occurs times, in file order, and where the file is decoded in the
\* order it was made in the entries are the values of the file.
C9_NoOccurrenceDropped ==
    status = "done" =>
        LET doc == result[1]
            group(j) ==
                EntriesOf(doc[given.tags[j].name])[
                    Count(SubSeq(given.tags, 1, j), given.tags[j].name)]
        IN  /\ DOMAIN doc = {given.tags[j].name : j \in 1..Len(given.tags)}
            /\ \A name \in DOMAIN doc : Entries(doc[name]) = Count(given.tags, name)
            /\ \A j \in 1..Len(given.tags) :
                  /\ DOMAIN group(j) = KeyNames(given.tags[j].keys)
                  /\ \A key \in DOMAIN group(j) :
                        /\ Entries(group(j)[key]) = Count(given.tags[j].keys, key)
                        /\ (given.form # "bin_big" /\ pa.swaps = 0) =>
                              group(j)[key] =
                                  Collapsed(ValuesOf(given.tags[j].keys, key))

\* C10: a delivered filedata tag has the tagkey names of the filedata tag
\* of the file, as many times and in the same order, and where the file is
\* decoded in the order it was made in only the value of byteswaptest may
\* differ.
C10_FiledataKeysKept ==
    \A j \in 1..Len(tags) :
        tags[j].name = Filedata =>
            LET items == AllItems(tags[j])
            IN  /\ Names(items) = Names(given.tags[j].keys)
                /\ (given.form # "bin_big" /\ pa.swaps = 0) =>
                      \A i \in 1..Len(items) :
                          items[i].name # Byteswaptest =>
                              items[i] = given.tags[j].keys[i]

\* the file is an ASCII file that opens with a filedata tag whose only key
\* is a byteswaptest other than 1
AsciiSwapped ==
    /\ given.form = "asc"
    /\ Len(given.tags) >= 1
    /\ given.tags[1] = FileTag(Filedata, <<Item(Byteswaptest, Val("int", 2))>>)

\* C17: reading an ASCII file whose byteswaptest is not 1 raises no error
\* in a tag without filedata keys, and every tagkey delivered after the
\* filedata tag has the value the file gives it, as in the same file with
\* byteswaptest = 1.
C17_AsciiOrderFree ==
    AsciiSwapped =>
        /\ (\A j \in 2..Len(given.tags) : given.tags[j].name # Filedata) =>
              status \in {"opening", "running", "exhausted", "done"}
        /\ \A j \in 2..Len(tags) : \A i \in 1..Len(tags[j].keys) :
              tags[j].keys[i] = given.tags[j].keys[i]

(***************************************************************************)
(* The parser driven by hand: iter(RoffParser) on a binary stream, with    *)
(* swap_endianess called on the parser and on the tokenizer at any time    *)
(***************************************************************************)
\* the tag groups of the streams: simple int tagkeys
ParsePool ==
    { FileTag(<<116>>, <<Item(<<120>>, Val("int", 1)),
                         Item(<<121>>, Val("int", -16777216))>>),
      FileTag(<<117>>, <<Item(<<122>>, Val("int", 258))>>) }

MaxSwaps == 2

MaxParseTags == 1

InitParse ==
    /\ given \in [tags : SeqsUpTo(ParsePool, MaxParseTags), form : {"bin_little", "bin_big"}]
    /\ stream = file_contents(given.tags, given.form)
    /\ mode = "lazy"
    /\ status = "running"
    /\ Fresh

\* next() on iter(RoffParser)
ParserNext ==
    LET handed(r) ==
            /\ tk' = r.tk
            /\ pa' = r.pa
            /\ tags' = IF r.res = "tag"
                       THEN Append(tags, LazyTag(r.name, r.toks, r.pa.endianess))
                       ELSE tags
            /\ status' = CASE r.res = "tag" -> "running"
                           [] r.res = "stop" -> "exhausted"
                           [] OTHER -> r.err
    IN  /\ status = "running"
        /\ handed(Parser_next(stream, text, tk, pa))
        /\ UNCHANGED <<given, stream, text, mode, hd, warnings, result, files, tokens>>

\* parser.swap_endianess()
SwapParser ==
    /\ pa.swaps < MaxSwaps
    /\ pa' = Parser_swap_endianess(pa)
    /\ UNCHANGED <<given, stream, text, mode, tk, hd, tags, status, warnings, result, files, tokens>>

\* tokenizer.swap_endianess()
SwapTokenizer ==
    /\ tk.swaps < MaxSwaps
    /\ tk' = Tokenizer_swap_endianess(tk)
    /\ UNCHANGED <<given, stream, text, mode, pa, hd, tags, status, warnings, result, files, tokens>>

NextParse ==
    \/ ParserNext
    \/ SwapParser
    \/ SwapTokenizer
    \/ \E j \in 1..Len(tags) : PullKey(j)

SpecParse == InitParse /\ [][NextParse]_vars

\* roff-bin\0 tag\0 t\0 int\0 x\0 01 00 00 00 int\0 y\0 00 00 00 ff endtag\0
SwapTestBytes ==
    <<114, 111, 102, 102, 45, 98, 105, 110, 0, 116, 97, 103, 0, 116, 0,
      105, 110, 116, 0, 120, 0, 1, 0, 0, 0,
      105, 110, 116, 0, 121, 0, 0, 0, 0, 255,
      101, 110, 100, 116, 97, 103, 0>>

\* C5: a simple numeric tagkey of a binary stream has the value its bytes
\* have in the byte order the parser had when the tagkey was pulled,
\* whatever the order was when its tag was yielded; in the stream of the
\* swap test x pulled little-endian is 1 and y pulled big-endian is 255.
C5_DecodedAtPull ==
    /\ \A j \in 1..Len(tags) : \A i \in 1..Len(tags[j].keys) :
          tags[j].keys[i] =
              Item(given.tags[j].keys[i].name,
                   AsRead(given.tags[j].keys[i].val, tags[j].at_pull[i]))
    /\ (stream = SwapTestBytes /\ Len(tags) >= 1) =>
          /\ (Len(tags[1].keys) >= 1 /\ tags[1].at_pull[1] = "little") =>
                tags[1].keys[1] = Item(<<120>>, Val("int", 1))
          /\ (Len(tags[1].keys) >= 2 /\ tags[1].at_pull[2] = "big") =>
                tags[1].keys[2] = Item(<<121>>, Val("int", 255))

\* the swap test: the tag is yielded and x pulled little-endian, then both
\* are swapped once and y is pulled
C5_Witness ==
    /\ stream = SwapTestBytes
    /\ Len(tags) = 1
    /\ tags[1].at_yield = "little"
    /\ tags[1].at_pull = <<"little", "big">>
    /\ tags[1].keys = <<Item(<<120>>, Val("int", 1)), Item(<<121>>, Val("int", 255))>>
    /\ pa.swaps = 1 /\ tk.swaps = 1

(***************************************************************************)
(* The tokenizer driven by hand: next(tokens) on iter(RoffTokenizer) of a  *)
(* byte stream or a text stream that stands at any position                *)
(***************************************************************************)
\* what the streams begin with
Heads ==
    { Keywords.ROFF_BIN \o <<NUL>>, Keywords.ROFF_BIN, Keywords.ROFF_BIN \o <<SPACE>>,
      Keywords.ROFF_ASC, Keywords.ROFF_ASC \o <<NUL>>,
      <<>>, SubSeq(Keywords.ROFF_BIN, 1, 7), <<114, 111, 102, 102, 45, 97, 98, 99>>,
      <<82, 79, 70, 70, 45, 66, 73, 78, NUL>> }

\* what follows in the streams
Bodies ==
    { <<>>,
      <<SPACE>> \o Keywords.TAG \o <<SPACE, 116, SPACE>> \o Keywords.ENDTAG \o <<SPACE>>,
      Keywords.TAG \o <<NUL, 116, NUL>> \o Keywords.ENDTAG \o <<NUL>>,
      Keywords.TAG \o <<NUL, 116, NUL>> \o Keywords.INT \o <<NUL, 120, NUL, 1, 0, 0, 0>>
          \o Keywords.ENDTAG \o <<NUL>> }

\* the positions the streams stand at when the tokenizer is made
Starts == {0, 2}

InitTokenize ==
    /\ given \in [head : Heads, body : Bodies, start : Starts]
    /\ stream = SubSeq(<<SPACE, SPACE>>, 1, given.start) \o given.head \o given.body
    /\ text \in BOOLEAN
    /\ tk = [NewTokenizer EXCEPT !.ts.pos = given.start]
    /\ pa = NewParser
    /\ hd = NewHandler
    /\ tags = <<>>
    /\ mode = "lazy"
    /\ status = "running"
    /\ warnings = 0
    /\ result = <<>>
    /\ files = <<>>
    /\ tokens = <<>>

\* next(tokens)
TokenizerNext ==
    LET pulled(r) ==
            /\ tk' = r.tk
            /\ status' = CASE r.res = "tok" -> "running"
                           [] r.res = "stop" -> "exhausted"
                           [] OTHER -> r.err
            /\ tokens' = IF r.res = "tok" THEN Append(tokens, r.tok) ELSE tokens
    IN  /\ status = "running"
        /\ pulled(pull(stream, text, tk))
        /\ UNCHANGED <<given, stream, text, mode, pa, hd, tags, warnings, result, files>>

NextTokenize == TokenizerNext

SpecTokenize == InitTokenize /\ [][NextTokenize]_vars

\* the first 8 units of the stream from where it stands, and the ninth
First8 ==
    LET s == given.head \o given.body
    IN  SubSeq(s, 1, IF Len(s) < 8 THEN Len(s) ELSE 8)

Ninth == Rd(given.head \o given.body, 8)

\* C18: the first next(tokens) raises WrongFileModeError when the stream
\* begins with 'roff-asc' and is a byte stream or with 'roff-bin' and is a
\* text stream; it yields ROFF_BIN for b'roff-bin' and a null byte and
\* ROFF_ASC for 'roff-asc' of a text stream; in every other case it raises
\* TokenizationError and the stream stands where it stood.
C18_HeaderDecides ==
    [][(tk.ts.at = "header" /\ TokenizerNext) =>
          CASE (~text /\ First8 = Keywords.ROFF_ASC) \/ (text /\ First8 = Keywords.ROFF_BIN) ->
                  status' = "WrongFileModeError"
            [] ~text /\ First8 = Keywords.ROFF_BIN /\ Ninth = NUL ->
                  /\ status' = "running"
                  /\ tk'.m = "bin"
                  /\ tk'.ts.cnt = NoToken /\ tk'.ts.pos = given.start + 9
            [] text /\ First8 = Keywords.ROFF_ASC ->
                  /\ status' = "running"
                  /\ tk'.m = "txt"
                  /\ tk'.ts.pos = given.start + 8
            [] OTHER ->
                  /\ status' = "TokenizationError"
                  /\ tk'.ts.pos = given.start]_vars

\* b'roff-bin' and a space, met at position 2, was refused and the stream
\* stands at position 2
C18_Witness ==
    /\ ~text
    /\ given.head = Keywords.ROFF_BIN \o <<SPACE>>
    /\ given.start = 2
    /\ status = "TokenizationError"
    /\ tk.ts.at = "finished"
    /\ tk.ts.pos = 2

(***************************************************************************)
(* write                                                                   *)
(*                                                                         *)
(* The values written are str, bool, bytes, int and float objects          *)
(* (Val("str", codes), Val("bool", b), Val("bytes", codes), Val("int", v), *)
(* Val("double", h)), numpy scalars (Element(dtype, v)), numpy arrays       *)
(* (ArrayVal(dtype, elements)) and lists (ListVal(values)).  The dtypes    *)
(* are "bool", "int8", "uint8", "int" (int32), "int64", "float16", "float" *)
(* (float32) and "double" (float64).  A value tree is a sequence of tags   *)
(* [name, keys, py] with tagkeys [name, val]: py tells whether the keys    *)
(* were given as a dictionary ("dict") or as an iterable of pairs          *)
(* ("list"), and the tree itself is [py, items].  What a write function    *)
(* does to its stream is [ok, out, err, warn]: out is what it wrote before *)
(* it returned or raised err, warn the number of warnings it emitted.      *)
(***************************************************************************)
Written(out) == [ok |-> TRUE, out |-> out, err |-> "none", warn |-> 0]
WriteError(err) == [ok |-> FALSE, out |-> <<>>, err |-> err, warn |-> 0]

\* warnings.warn(...) before the writes w
Warned(w) == [w EXCEPT !.warn = @ + 1]

\* one write after another: what follows an error is not written
Then(w, more) ==
    IF ~w.ok THEN w
    ELSE [more EXCEPT !.out = w.out \o more.out, !.warn = w.warn + more.warn]

\* one write for every element of a sequence of writes
RECURSIVE InTurn(_)
InTurn(ws) == IF ws = <<>> THEN Written(<<>>) ELSE Then(Head(ws), InTurn(Tail(ws)))

\* roffio.version.version, where the package is not installed
roffio_version == <<48, 46, 48, 46, 48>>

\* a numpy scalar, as the elements of a numpy array are
Element(kind, v) == [k |-> kind, t |-> "numpy", v |-> v]

\* a list of values
ListVal(v) == [k |-> "list", t |-> "none", v |-> v]

\* the roff type names
TypeName ==
    [char |-> Keywords.CHAR, bool |-> Keywords.BOOL, byte |-> Keywords.BYTE,
     int |-> Keywords.INT, float |-> Keywords.FLOAT, double |-> Keywords.DOUBLE]

\* the roff type of a dtype, "ValueError" where the function raises it
numpy_to_roff_dtype(dtyp) ==
    CASE dtyp = "bool" -> "bool"
      [] dtyp \in {"int8", "uint8", "bytes"} -> "byte"
      [] dtyp \in {"int", "int64"} -> "int"
      [] dtyp = "float" -> "float"
      [] dtyp = "double" -> "double"
      [] OTHER -> "ValueError"

\* the roff type of a value, "ValueError" where the function raises it: a
\* list has no dtype
type_string(value) ==
    CASE value.k = "str" -> "char"
      [] value.t = "numpy" -> numpy_to_roff_dtype(value.k)
      [] value.k = "array" -> numpy_to_roff_dtype(value.t)
      [] value.k = "bool" -> "bool"
      [] value.k = "bytes" -> "byte"
      [] value.k = "int" -> "int"
      [] value.k = "double" -> "double"
      [] OTHER -> "ValueError"

\* cast_to_roff(value, type_str).tobytes()
cast_to_roff(value, type_str) ==
    CASE type_str = "bool" -> <<IF value.v THEN 1 ELSE 0>>
      [] type_str = "byte" -> IF value.t = "numpy" THEN <<value.v % 256>> ELSE value.v
      [] type_str = "int" -> int32_tobytes(value.v)
      [] type_str = "float" -> FloatBytes(value.v)
      [] OTHER -> DoubleBytes(value.v)

\* cast_array_to_roff: the dtype of the array it returns and whether it warns
cast_array_to_roff(dtyp) ==
    CASE dtyp \in {"bool", "int", "uint8", "bytes", "float", "double"} ->
            [dtype |-> dtyp, warn |-> FALSE, err |-> "none"]
      [] dtyp = "int8" -> [dtype |-> "uint8", warn |-> TRUE, err |-> "none"]
      [] dtyp = "int64" -> [dtype |-> "int", warn |-> TRUE, err |-> "none"]
      [] dtyp = "float16" -> [dtype |-> "double", warn |-> TRUE, err |-> "none"]
      [] OTHER -> [dtype |-> dtyp, warn |-> FALSE, err |-> "ValueError"]

write_binary_string(string) ==
    IF \E j \in 1..Len(string) : string[j] = NUL THEN WriteError("RoffWriteError")
    ELSE IF \E j \in 1..Len(string) : string[j] >= 128
         THEN WriteError("UnicodeEncodeError")
    ELSE Written(string \o <<NUL>>)

write_binary_value(value, type_str) ==
    IF value.k = "str" THEN write_binary_string(value.v)
    ELSE Written(cast_to_roff(value, type_str))

\* iter(value): the elements of a numpy array, of a list or of a bytes object
Elements(value) ==
    CASE value.k = "array" -> [j \in 1..Len(value.v) |-> Element(value.t, value.v[j])]
      [] value.k = "list" -> value.v
      [] OTHER -> [j \in 1..Len(value.v) |-> Val("int", value.v[j])]

is_array_type(value) ==
    /\ ~(value.k = "bytes" /\ Len(value.v) = 1)
    /\ value.k # "str"
    /\ value.t # "numpy" /\ value.k \in {"bytes", "list", "array"}

\* len(value).to_bytes(4, "little")
count_bytes(n) == int32_tobytes(n)

write_binary_tagkey(tagkey_name, value) ==
    LET ndarray(c) ==
            IF c.err # "none" THEN WriteError(c.err)
            ELSE InTurn(<<Written(TypeName[numpy_to_roff_dtype(c.dtype)] \o <<NUL>>),
                          write_binary_string(tagkey_name),
                          Written(count_bytes(Len(value.v))),
                          Written(Concat([j \in 1..Len(value.v) |->
                                     cast_to_roff(Element(c.dtype, value.v[j]),
                                                  numpy_to_roff_dtype(c.dtype))]))>>)
        following(val, type_str) ==
            IF type_str # type_string(val)
            THEN \* the message of the RoffWriteError holds type_string(value)
                 WriteError(IF type_string(value) = "ValueError" THEN "ValueError"
                            ELSE "RoffWriteError")
            ELSE write_binary_value(val, type_str)
        iterated(elements, type_str) ==
            IF elements = <<>>
            THEN InTurn(<<Written(Keywords.ARRAY \o <<NUL>> \o Keywords.BYTE \o <<NUL>>),
                          write_binary_string(tagkey_name),
                          Written(<<0, 0, 0, 0>>)>>)
            ELSE IF type_str = "ValueError" THEN WriteError("ValueError")
            ELSE InTurn(<<Written(Keywords.ARRAY \o <<NUL>> \o TypeName[type_str]
                                  \o <<NUL>>),
                          write_binary_string(tagkey_name),
                          Written(count_bytes(Len(elements))),
                          write_binary_value(elements[1], type_str),
                          InTurn([j \in 1..Len(elements) - 1 |->
                                     following(elements[j + 1], type_str)])>>)
        simple(type_str) ==
            IF type_str = "ValueError" THEN WriteError("ValueError")
            ELSE InTurn(<<Written(TypeName[type_str] \o <<NUL>>),
                          write_binary_string(tagkey_name),
                          write_binary_value(value, type_str)>>)
    IN  CASE value.k = "array" ->
                Then(Written(Keywords.ARRAY \o <<NUL>>),
                     IF cast_array_to_roff(value.t).warn
                     THEN Warned(ndarray(cast_array_to_roff(value.t)))
                     ELSE ndarray(cast_array_to_roff(value.t)))
          [] value.k = "bytes" /\ Len(value.v) > 1 ->
                InTurn(<<Written(Keywords.ARRAY \o <<NUL>> \o Keywords.BYTE \o <<NUL>>),
                         write_binary_string(tagkey_name),
                         Written(count_bytes(Len(value.v))),
                         Written(value.v)>>)
          [] is_array_type(value) ->
                iterated(Elements(value),
                         IF Elements(value) = <<>> THEN "byte"
                         ELSE type_string(Elements(value)[1]))
          [] OTHER -> simple(type_string(value))

\* the comment that names the creator
Creator ==
    <<35, 67, 114, 101, 97, 116, 111, 114, 58, 32, 114, 111, 102, 102, 105, 111,
      44, 32, 118, 101, 114, 115, 105, 111, 110, 32>> \o roffio_version \o <<HASH>>

RoffFile == <<35, 82, 79, 70, 70, 32, 102, 105, 108, 101, 35>>

write_binary_tag(tag) ==
    InTurn(<<Written(Keywords.TAG \o <<NUL>>),
             write_binary_string(tag.name),
             InTurn([j \in 1..Len(tag.keys) |->
                        write_binary_tagkey(tag.keys[j].name, tag.keys[j].val)]),
             Written(Keywords.ENDTAG \o <<NUL>>)>>)

write_binary_roff(values) ==
    Then(Written(Keywords.ROFF_BIN \o <<NUL>> \o RoffFile \o <<NUL>> \o Creator \o <<NUL>>),
         InTurn([j \in 1..Len(values) |-> write_binary_tag(values[j])]))

check_valid_ascii_name(name) ==
    IF Len(name) = 0 THEN WriteError("RoffWriteError")
    ELSE IF \E j \in 1..Len(name) : name[j] \in SpaceChars \/ name[j] = HASH
         THEN WriteError("RoffWriteError")
    ELSE Written(<<>>)

\* str(value) of a float or a numpy floating point number h / 2
str_float(h) ==
    LET a == IF h < 0 THEN 0 - h ELSE h
    IN  (IF h < 0 THEN <<MINUS>> ELSE <<>>)
        \o str_nat(a \div 2) \o <<46>> \o (IF a % 2 = 1 THEN <<53>> ELSE <<48>>)

\* str(value)
str(value) ==
    CASE value.k = "bool" ->
            IF value.v THEN <<84, 114, 117, 101>> ELSE <<70, 97, 108, 115, 101>>
      [] value.k \in {"int", "int8", "uint8", "int64"} -> str_int(value.v)
      [] OTHER -> str_float(value.v)

write_ascii_value(value, type_str) ==
    CASE value.k = "str" -> Written(<<QUOTE>> \o value.v \o <<QUOTE>>)
      [] type_str = "byte" /\ value.k = "bytes" ->
            IF Len(value.v) # 1 THEN WriteError("RoffWriteError")
            ELSE Written(str_nat(value.v[1]))
      [] type_str = "bool" /\ value.k = "bool" /\ value.t # "numpy" ->
            Written(IF value.v THEN <<49>> ELSE <<48>>)
      [] OTHER -> Written(str(value))

write_ascii_tagkey(tagkey_name, value) ==
    LET element(v, typ_str, j) ==
            IF j > 1 /\ value.k # "bytes" /\ type_string(v) = "ValueError"
            THEN WriteError("ValueError")
            ELSE IF j > 1 /\ value.k # "bytes" /\ typ_str # type_string(v)
            THEN WriteError("RoffWriteError")
            ELSE Then(write_ascii_value(v, typ_str), Written(<<NEWLINE>>))
        array(elements, first_str, typ_str) ==
            IF elements = <<>>
            THEN Written(Keywords.ARRAY \o <<SPACE>> \o Keywords.BYTE \o <<SPACE>>
                         \o tagkey_name \o <<SPACE, 48, NEWLINE>>)
            ELSE IF first_str = "ValueError" THEN WriteError("ValueError")
            ELSE Then(Written(Keywords.ARRAY \o <<SPACE>> \o TypeName[typ_str] \o <<SPACE>>
                              \o tagkey_name \o <<SPACE>> \o str_nat(Len(elements))
                              \o <<NEWLINE>>),
                      InTurn([j \in 1..Len(elements) |->
                                 element(elements[j], typ_str, j)]))
        iterated(elements) ==
            array(elements,
                  IF elements = <<>> THEN "byte" ELSE type_string(elements[1]),
                  IF elements = <<>> \/ value.k = "bytes" THEN "byte"
                  ELSE type_string(elements[1]))
        simple(typ_str) ==
            IF typ_str = "ValueError" THEN WriteError("ValueError")
            ELSE InTurn(<<Written(TypeName[typ_str] \o <<SPACE>> \o tagkey_name
                                  \o <<SPACE>>),
                          write_ascii_value(value, typ_str),
                          Written(<<NEWLINE>>)>>)
    IN  Then(check_valid_ascii_name(tagkey_name),
             IF is_array_type(value) THEN iterated(Elements(value))
             ELSE simple(type_string(value)))

write_ascii_tag(tag) ==
    InTurn(<<Written(Keywords.TAG \o <<SPACE>> \o tag.name \o <<NEWLINE>>),
             check_valid_ascii_name(tag.name),
             InTurn([j \in 1..Len(tag.keys) |->
                        write_ascii_tagkey(tag.keys[j].name, tag.keys[j].val)]),
             Written(Keywords.ENDTAG \o <<NEWLINE>>)>>)

write_ascii_roff(values) ==
    Then(Written(Keywords.ROFF_ASC \o <<NEWLINE>> \o RoffFile \o <<NEWLINE>>
                 \o Creator \o <<NEWLINE>>),
         InTurn([j \in 1..Len(values) |-> write_ascii_tag(values[j])]))

Version == <<118, 101, 114, 115, 105, 111, 110>>
Major == <<109, 97, 106, 111, 114>>
Minor == <<109, 105, 110, 111, 114>>
Eof == <<101, 111, 102>>
CreationDate == <<99, 114, 101, 97, 116, 105, 111, 110, 68, 97, 116, 101>>

\* datetime.now().strftime("%d/%m/%Y %H:%M:%S"), at one moment
Now == <<48, 52, 47, 49, 49, 47, 50, 48, 50, 54, 32, 48, 50, 58, 48, 48, 58, 48, 48>>

roff_metadata ==
    <<FileTag(Filedata, <<Item(Byteswaptest, Val("int", 1)),
                          Item(CreationDate, Val("str", Now))>>),
      FileTag(Version, <<Item(Major, Val("int", 2)), Item(Minor, Val("int", 0))>>)>>

\* value != n, for a Python value and an integer
not_equal(value, n) ==
    CASE value.k \in {"int", "int8", "uint8", "int64"} -> value.v # n
      [] value.k = "bool" -> (IF value.v THEN 1 ELSE 0) # n
      [] value.k = "double" -> value.v # 2 * n
      [] OTHER -> TRUE

\* a dict that no update changes
not_updated(d, values, name) == d

\* the dict d after d.update(keys) for every tag of the values called name
RECURSIVE updated(_, _, _)
updated(d, values, name) ==
    IF values = <<>> THEN d
    ELSE updated(IF Head(values).name = name THEN dict(Head(values).keys, d) ELSE d,
                 Tail(values), name)

\* a value tree: a dictionary (py = "dict") or an iterable of pairs
PyValues(py, items) == [py |-> py, items |-> items]

\* a tag of a value tree, its keys a dictionary or an iterable of pairs
PyTag(name, keys, py) == [name |-> name, keys |-> keys, py |-> py]

\* what write raises before it calls a writer: the destination is untouched
Rejected(err) ==
    [ok |-> FALSE, out |-> <<>>, err |-> err, warn |-> 0, called |-> FALSE]

\* the wrapper of a writer: the destination, opened first when it is a path,
\* is handed to the writer
takes_stream(w) ==
    [ok |-> w.ok, out |-> w.out, err |-> w.err, warn |-> w.warn, called |-> TRUE]

\* what the evaluation of values['filedata'][key] raises, "none" when it
\* gives the value
filedata_lookup(values, key) ==
    LET at == {j \in 1..Len(values.items) : values.items[j].name = Filedata}
        of(fd) == IF fd.py # "dict" THEN "TypeError"
                  ELSE IF ~dict_has(fd.keys, key) THEN "KeyError"
                  ELSE "none"
    IN  IF values.py # "dict" THEN "TypeError"
        ELSE IF at = {} THEN "KeyError"
        ELSE of(values.items[CHOOSE j \in at : TRUE])

write(values, roff_format) ==
    LET filedata == updated(roff_metadata[1].keys, values.items, Filedata)
        version == updated(roff_metadata[2].keys, values.items, Version)
        values_list ==
            SelectSeq(values.items, LAMBDA p : p.name \notin {Filedata, Version, Eof})
        all == <<FileTag(Filedata, filedata), FileTag(Version, version)>>
               \o values_list \o <<FileTag(Eof, <<>>)>>
    IN  IF not_equal(dict_get(version, Major), 2) \/ not_equal(dict_get(version, Minor), 0)
        THEN Rejected("ValueError")
        ELSE IF KeyNames(version) # {Major, Minor}
        THEN \* the message holds values['filedata']['version'].keys()
             Rejected(IF filedata_lookup(values, Version) # "none"
                      THEN filedata_lookup(values, Version)
                      ELSE "AttributeError")
        ELSE IF not_equal(dict_get(filedata, Byteswaptest), 1)
        THEN \* the message holds values['filedata']['byteswaptest']
             Rejected(IF filedata_lookup(values, Byteswaptest) # "none"
                      THEN filedata_lookup(values, Byteswaptest)
                      ELSE "ValueError")
        ELSE IF roff_format = "BINARY" THEN takes_stream(write_binary_roff(all))
        ELSE takes_stream(write_ascii_roff(all))

(***************************************************************************)
(* write, then read: a value tree is written in one format to a fresh      *)
(* stream, the stream is rewound and read, and then the same is done in    *)
(* the other format                                                        *)
(***************************************************************************)
\* the tags of the value trees that are written and read
WritePool ==
    LET k == <<107>>
        x == <<120>>
    IN  { PyTag(<<116>>, <<Item(k, Val("str", <<>>))>>, "dict"),
          PyTag(<<116>>, <<Item(k, Val("str", <<97, 32, 98>>)), Item(x, Val("int", -2))>>,
                "dict"),
          PyTag(<<117>>, <<Item(x, Val("double", 3)), Item(x, Val("bool", TRUE)),
                           Item(k, Val("bytes", <<65>>))>>, "list"),
          PyTag(<<118>>, <<Item(<<97>>, ArrayVal("int", <<1, -2>>))>>, "dict"),
          PyTag(Filedata, <<Item(<<102, 105, 108, 101, 116, 121, 112, 101>>,
                                 Val("str", <<103>>)),
                            Item(CreationDate, Val("str", <<100>>))>>, "dict"),
          PyTag(Version, <<Item(Major, Val("int", 3))>>, "dict"),
          PyTag(Eof, <<Item(x, Val("int", 1))>>, "dict") }

MaxWriteTags == 2

Formats == {"BINARY", "ASCII"}

OtherFormat(roff_format) == IF roff_format = "BINARY" THEN "ASCII" ELSE "BINARY"

\* the format of the stream that is written or read now
CurrentFormat == IF result = <<>> THEN given.form ELSE OtherFormat(given.form)

\* the value tree handed to write
Values == PyValues(given.py, given.tags)

\* what a file holds before write is called with its path
OldContent == <<111, 108, 100>>

\* a value tree of tags of the pool, a dictionary or a list of pairs, is to
\* be written to a fresh stream or to the path of a file that exists
InitWrite(pool) ==
    /\ given \in [tags : SeqsUpTo(pool, MaxWriteTags), form : Formats,
                  py : {"dict", "list"}, dest : {"stream", "path"}]
    /\ given.py = "dict" =>
          \A i, j \in 1..Len(given.tags) :
              given.tags[i].name = given.tags[j].name => i = j
    /\ stream = (IF given.dest = "path" THEN OldContent ELSE <<>>)
    /\ mode = "read"
    /\ status = "writing"
    /\ Fresh

Init == InitWrite(WritePool)

\* write(f, values, roff_format), f a fresh io.BytesIO or io.StringIO or a
\* path; read(f) starts on what was written, after f.seek(0) on a stream
Write ==
    LET written(w) ==
            /\ stream' = (IF w.called THEN w.out ELSE stream)
            /\ status' = (IF w.ok THEN "running" ELSE w.err)
            /\ warnings' = warnings + w.warn
    IN  /\ status = "writing" \/ (status = "done" /\ Len(result) = 1)
        /\ written(write(Values, CurrentFormat))
        /\ text' = (CurrentFormat = "ASCII")
        /\ tk' = NewTokenizer
        /\ pa' = NewParser
        /\ hd' = NewHandler
        /\ tags' = <<>>
        /\ UNCHANGED <<given, mode, result, files, tokens>>

Next ==
    \/ Write
    \/ HandlerNext
    \/ \E j \in 1..Len(tags) : PullKey(j)
    \/ Finish

Spec == Init /\ [][Next]_vars

MetaNames == {Filedata, Version, Eof}

\* a document without its entries of the given names
Without(doc, names) == [name \in DOMAIN doc \ names |-> doc[name]]

\* the value tree without the tags write makes itself
UserTags(values) == SelectSeq(values, LAMBDA p : p.name \notin MetaNames)

ReadFailed == status \notin {"writing", "running", "exhausted", "done"}

\* C1: in either format, read of what write wrote of a value tree returns,
\* once filedata, version and eof are removed, the value tree: the same tag
\* names, key names, value kinds and values, and read does not fail on a
\* stream that write wrote without error.
C1_RoundTrip ==
    /\ \A i \in 1..Len(result) :
          Without(result[i], MetaNames) = read_result(UserTags(given.tags))
    /\ ReadFailed => ~write(Values, CurrentFormat).ok

\* C2: when a value tree was written as BINARY and as ASCII and both were
\* read, the two documents are equal once filedata is removed from both.
C2_FormatsAgree ==
    Len(result) = 2 => Without(result[1], {Filedata}) = Without(result[2], {Filedata})

(***************************************************************************)
(* write alone: one call of write on a value tree, in either format        *)
(***************************************************************************)
\* the tags of the value trees that are written
ValuePool ==
    LET x == <<120>>
        a == <<97>>
        int(v) == Val("int", v)
    IN  { PyTag(Version, <<Item(Major, int(3))>>, "dict"),
          PyTag(Version, <<Item(Minor, int(1))>>, "list"),
          PyTag(Version, <<Item(Major, int(2)), Item(Minor, int(0)), Item(x, int(1))>>,
                "dict"),
          PyTag(Filedata, <<Item(Byteswaptest, int(2))>>, "dict"),
          PyTag(Filedata, <<Item(Byteswaptest, int(2))>>, "list"),
          PyTag(<<119>>, <<Item(a, ListVal(<<int(1), Val("double", 5)>>))>>, "dict"),
          PyTag(<<122>>, <<Item(x, int(1)),
                           Item(a, ListVal(<<Val("bool", TRUE), int(1)>>))>>, "list"),
          PyTag(<<108>>, <<Item(a, ListVal(<<Val("str", <<97>>), Val("str", <<98>>)>>)),
                           Item(x, ListVal(<<int(1), int(-2)>>))>>, "dict"),
          PyTag(<<110>>, <<Item(a, ArrayVal("int64", <<5, -6>>))>>, "dict"),
          PyTag(<<109>>, <<Item(x, Element("int64", 5))>>, "dict"),
          PyTag(<<104>>, <<Item(a, ArrayVal("float16", <<3>>))>>, "dict"),
          PyTag(<<101>>, <<Item(a, ArrayVal("int", <<>>))>>, "dict"),
          PyTag(<<97, 32, 98>>, <<Item(x, int(1))>>, "dict"),
          PyTag(<<116>>, <<Item(x, int(1)), Item(<<97, 35>>, int(2))>>, "dict"),
          PyTag(<<121>>, <<Item(<<102>>, Element("float", 3)),
                           Item(<<98>>, Element("bool", TRUE)),
                           Item(<<99>>, Element("uint8", 65)),
                           Item(<<100>>, Val("bytes", <<65, 66>>)),
                           Item(<<101>>, Val("bytes", <<65>>)),
                           Item(x, Val("double", 3)),
                           Item(a, Val("bool", FALSE))>>, "list") }

InitValues == InitWrite(ValuePool)

NextWrite == Write

SpecWrite == InitValues /\ [][NextWrite]_vars


(***************************************************************************)
(* write alone: what it is expected to do                                  *)
(***************************************************************************)
\* what the destination held before write was called
Before == IF given.dest = "path" THEN OldContent ELSE <<>>

\* the value the caller gave for a key of the tags of one name, the one
\* given last, and fallback where the caller gave none
Supplied(name, key, fallback) ==
    LET at == UNION {{<<j, i>> : i \in {h \in 1..Len(given.tags[j].keys) :
                                            given.tags[j].keys[h].name = key}} :
                     j \in {h \in 1..Len(given.tags) : given.tags[h].name = name}}
        last == CHOOSE p \in at : \A q \in at : q[1] < p[1] \/ (q[1] = p[1] /\ q[2] <= p[2])
    IN  IF at = {} THEN fallback ELSE given.tags[last[1]].keys[last[2]].val

\* the key names the caller gave in the tags of one name
SuppliedNames(name) ==
    UNION {KeyNames(given.tags[j].keys) : j \in {i \in 1..Len(given.tags) :
                                                    given.tags[i].name = name}}

\* the caller asks for another version or another byteswaptest
ChangesMetadata ==
    \/ Supplied(Version, Major, Val("int", 2)) # Val("int", 2)
    \/ Supplied(Version, Minor, Val("int", 0)) # Val("int", 0)
    \/ Supplied(Filedata, Byteswaptest, Val("int", 1)) # Val("int", 1)

\* C11: once write was called with a version.major other than 2, a
\* version.minor other than 0 or a filedata.byteswaptest other than 1 it has
\* raised ValueError, for a dictionary and for a list of pairs alike, and
\* the destination holds what it held before, a path's file included.
C11_MetadataRejected ==
    (status # "writing" /\ ChangesMetadata) =>
        /\ status = "ValueError"
        /\ stream = Before

\* the caller's version has a key beside major and minor, and major = 2 and
\* minor = 0
ExtraVersionFields ==
    /\ SuppliedNames(Version) \ {Major, Minor} # {}
    /\ Supplied(Version, Major, Val("int", 2)) = Val("int", 2)
    /\ Supplied(Version, Minor, Val("int", 0)) = Val("int", 0)

\* C12: once write was called with a version tag that has a key beside
\* major and minor it has raised ValueError and the destination holds what
\* it held before.
C12_ExtraVersionFieldsRejected ==
    (status # "writing" /\ ExtraVersionFields) =>
        /\ status = "ValueError"
        /\ stream = Before

(***************************************************************************)
(* write, then read: the tags of the written stream                        *)
(***************************************************************************)
\* the names of the tags write is expected to write
ExpectedNames == <<Filedata, Version>> \o Names(UserTags(given.tags)) \o <<Eof>>

\* write took the value tree and the stream it wrote is being read
Accepted == status \in {"running", "exhausted", "done"}

\* C13: the tags read from a stream that write wrote are, in order, one
\* filedata tag, one version tag, the caller's tags other than filedata,
\* version and eof in the caller's order, and one eof tag that has no keys
\* and is last; filedata opens with byteswaptest = 1 and creationDate, the
\* caller's where one was given, and holds every other field the caller
\* gave once; version holds major = 2 and minor = 0 and nothing else.
C13_TagSequence ==
    LET filedata(fd) ==
            /\ Len(fd) >= 2
            /\ fd[1] = Item(Byteswaptest, Val("int", 1))
            /\ fd[2] = Item(CreationDate,
                            Supplied(Filedata, CreationDate, Val("str", Now)))
            /\ KeyNames(fd) = {Byteswaptest, CreationDate} \cup SuppliedNames(Filedata)
            /\ Len(fd) = Cardinality(KeyNames(fd))
            /\ \A i \in 1..Len(fd) : fd[i].val = Supplied(Filedata, fd[i].name, fd[i].val)
    IN  Accepted =>
           /\ Len(tags) <= Len(ExpectedNames)
           /\ \A j \in 1..Len(tags) : tags[j].name = ExpectedNames[j]
           /\ status \in {"exhausted", "done"} =>
                 /\ Names(tags) = ExpectedNames
                 /\ tags[Len(tags)].keys = <<>>
                 /\ filedata(tags[1].keys)
                 /\ tags[2].keys = <<Item(Major, Val("int", 2)), Item(Minor, Val("int", 0))>>
                 /\ \A j \in 1..Len(UserTags(given.tags)) :
                       Names(tags[j + 2].keys) = Names(UserTags(given.tags)[j].keys)

\* both streams of a value tree that opens with an eof entry and goes on
\* with filedata fields were read
C13_Witness ==
    /\ status = "done"
    /\ Len(result) = 2
    /\ Names(given.tags) = <<Eof, Filedata>>
    /\ Len(given.tags[1].keys) = 1
    /\ Len(tags) = 3
    /\ Len(tags[1].keys) = 3

(***************************************************************************)
(* write alone: arrays, names and wire types                               *)
(***************************************************************************)
\* every tagkey of the value tree, in the order it is written
AllKeys == Concat([j \in 1..Len(given.tags) |-> given.tags[j].keys])

\* a list whose elements are not all of the roff type of the first
Heterogeneous(val) ==
    /\ val.k = "list"
    /\ \E j \in 2..Len(val.v) : type_string(val.v[j]) # type_string(val.v[1])

\* a name the ASCII format has no way to write
IllegalName(name) ==
    name = <<>> \/ \E j \in 1..Len(name) : name[j] \in SpaceChars \/ name[j] = HASH

\* a value tree of Python ints and lists of Python values under names that
\* both formats can write, with no tag that write makes itself
PlainTree ==
    /\ \A j \in 1..Len(given.tags) :
          given.tags[j].name \notin MetaNames /\ ~IllegalName(given.tags[j].name)
    /\ \A i \in 1..Len(AllKeys) :
          AllKeys[i].val.k \in {"int", "list"} /\ ~IllegalName(AllKeys[i].name)

HasHeterogeneous == \E i \in 1..Len(AllKeys) : Heterogeneous(AllKeys[i].val)

\* C14: once write was called with a value tree that holds an array whose
\* elements are not all of the type of its first element it has raised
\* RoffWriteError, in the BINARY format and in the ASCII format.
C14_HeterogeneousArrayError ==
    (status # "writing" /\ PlainTree /\ HasHeterogeneous) => status = "RoffWriteError"

\* C15: when write has failed on an array that is not homogeneous the
\* destination holds what it held before the call, in both formats and
\* wherever the array lies in the value tree.
C15_NothingWrittenOnFailure ==
    (status # "writing" /\ PlainTree /\ HasHeterogeneous) => stream = Before

\* the characters t occur in s, one after the other
Contains(s, t) == \E i \in 0..(Len(s) - Len(t)) : SubSeq(s, i + 1, i + Len(t)) = t

\* a value tree of Python ints with no tag that write makes itself and with
\* a tag name or a key name that the ASCII format cannot write
IllegalNames ==
    /\ \A j \in 1..Len(given.tags) : given.tags[j].name \notin MetaNames
    /\ \A i \in 1..Len(AllKeys) : AllKeys[i].val.k = "int"
    /\ \/ \E j \in 1..Len(given.tags) : IllegalName(given.tags[j].name)
       \/ \E i \in 1..Len(AllKeys) : IllegalName(AllKeys[i].name)

\* C16: once write was called in ASCII format with a tag name or a key name
\* that is empty or holds whitespace or '#' it has raised RoffWriteError,
\* and the stream holds no 'tag <name>' line of an illegal tag name and no
\* illegal key name.
C16_IllegalNameNotWritten ==
    (status # "writing" /\ given.form = "ASCII" /\ IllegalNames) =>
        /\ status = "RoffWriteError"
        /\ \A j \in 1..Len(given.tags) :
              IllegalName(given.tags[j].name) =>
                  ~Contains(stream, Keywords.TAG \o <<SPACE>> \o given.tags[j].name
                                    \o <<NEWLINE>>)
        /\ \A i \in 1..Len(AllKeys) :
              IllegalName(AllKeys[i].name) =>
                  ~Contains(stream, <<SPACE>> \o AllKeys[i].name \o <<SPACE>>)

\* a numpy number or array of a precision that no roff type has
Inexact(val) ==
    \/ val.t = "numpy" /\ val.k \in {"int64", "float16"}
    \/ val.k = "array" /\ val.t \in {"int64", "float16"}

\* a value tree of such values only, under names that both formats can write
InexactTree ==
    /\ Len(AllKeys) >= 1
    /\ \A j \in 1..Len(given.tags) :
          /\ given.tags[j].name \notin MetaNames
          /\ ~IllegalName(given.tags[j].name)
          /\ given.tags[j].keys # <<>>
    /\ \A i \in 1..Len(AllKeys) : Inexact(AllKeys[i].val) /\ ~IllegalName(AllKeys[i].name)

\* C19: once write was called with numpy values of 64-bit integer or 16-bit
\* float precision, scalars or arrays, in either format, it has written them
\* and has emitted a warning.
C19_CastWarns ==
    (status # "writing" /\ InexactTree) =>
        /\ status = "running"
        /\ warnings >= 1

\* the characters of s begin with those of t
StartsWith(s, t) == Len(s) >= Len(t) /\ SubSeq(s, 1, Len(t)) = t

\* the shape and roff type that the output of a tagkey writer opens with,
\* sep being the delimiter of the format: none where nothing was written
Declared(out, name, sep) ==
    {d \in {"array", "scalar"} \X DOMAIN TypeName :
        StartsWith(out, (IF d[1] = "array" THEN Keywords.ARRAY \o <<sep>> ELSE <<>>)
                        \o TypeName[d[2]] \o <<sep>> \o name \o <<sep>>)}

\* the shape and roff type the claim gives the values it lists
Listed(val) ==
    CASE val.k = "bool" -> {<<"scalar", "bool">>}
      [] val.k = "int" /\ val.t = "none" -> {<<"scalar", "int">>}
      [] val.k = "double" /\ val.t = "none" -> {<<"scalar", "double">>}
      [] val.k = "float" /\ val.t = "numpy" -> {<<"scalar", "float">>}
      [] val.k \in {"int8", "uint8"} /\ val.t = "numpy" -> {<<"scalar", "byte">>}
      [] val.k = "bytes" /\ Len(val.v) = 1 -> {<<"scalar", "byte">>}
      [] val.k = "bytes" /\ Len(val.v) >= 2 -> {<<"array", "byte">>}
      [] OTHER -> {}

\* C20: for every tagkey of a value tree the BINARY writer and the ASCII
\* writer open their output with the same shape and the same roff type, the
\* ones listed for Python and numpy scalars and for bytes, and the stream
\* written holds the tagkey so opened.
C20_SameWireType ==
    status # "writing" =>
        \A i \in 1..Len(AllKeys) :
            LET key == AllKeys[i]
                binary == Declared(write_binary_tagkey(key.name, key.val).out,
                                   key.name, NUL)
                ascii == Declared(write_ascii_tagkey(key.name, key.val).out,
                                  key.name, SPACE)
            IN  ~IllegalName(key.name) =>
                    /\ binary = ascii
                    /\ Listed(key.val) # {} => binary = Listed(key.val)
                    /\ status = "running" =>
                          \E d \in (IF given.form = "BINARY" THEN binary ELSE ascii) :
                              Contains(stream, TypeName[d[2]]
                                  \o (IF given.form = "BINARY" THEN <<NUL>> ELSE <<SPACE>>)
                                  \o key.name)

(***************************************************************************)
(* read and lazy_read of a path whose file ends early: the files of the    *)
(* generators, cut at any position                                         *)
(***************************************************************************)
CutPool ==
    { FileTag(Filedata, <<Item(Byteswaptest, Val("int", 1))>>),
      FileTag(<<116>>, <<Item(<<120>>, Val("int", 258)),
                         Item(<<97>>, ArrayVal("int", <<1, 2>>))>>) }

MaxCutTags == 2

InitCut ==
    /\ given \in UNION {[tags : {t}, form : {f}, cut : 0..Len(file_contents(t, f))] :
                            t \in SeqsUpTo(CutPool, MaxCutTags), f \in Forms}
    /\ stream = SubSeq(file_contents(given.tags, given.form), 1, given.cut)
    /\ mode \in {"read", "lazy"}
    /\ status = "opening"
    /\ Fresh

\* the with block of a user of lazy_read is left without an exception:
\* lazy_read goes on after its yield
Leave ==
    /\ mode = "lazy"
    /\ status \in {"running", "exhausted"}
    /\ files' = Closed(files)
    /\ status' = "left"
    /\ UNCHANGED <<given, stream, text, mode, tk, pa, hd, tags, warnings, result, tokens>>

NextCut ==
    \/ Open
    \/ HandlerNext
    \/ \E j \in 1..Len(tags) : PullKey(j)
    \/ Finish
    \/ Leave

SpecCut == InitCut /\ [][NextCut]_vars

\* the call of read, or the scope of lazy_read, has ended
Ended == status \notin {"opening", "running", "exhausted"}

\* C21: when read or lazy_read was given a path and the call (the scope) has
\* ended, normally or with an error of the probe or of the decoding, every
\* file it has opened is closed.
C21_HandlesClosed ==
    Ended => \A j \in 1..Len(files) : files[j].closed

\* where tag group j begins in the uncut file
GroupStart(j) == Len(file_contents(SubSeq(given.tags, 1, j - 1), given.form))

\* the stream ends inside tag group j: after its 'tag' and before its 'endtag'
EndsInside(j) ==
    /\ GroupStart(j) + Len(Keywords.TAG) <= given.cut
    /\ given.cut <= FileEnd(j) - (Len(Keywords.ENDTAG) + 1)

\* C22: read of a stream that ends inside a tag group does not return, and
\* what it raises is RoffSyntaxError or TokenizationError.
C22_TruncatedGroupRaises ==
    (mode = "read" /\ \E j \in 1..Len(given.tags) : EndsInside(j)) =>
        /\ status # "done"
        /\ result = <<>>
        /\ Ended => status \in {"RoffSyntaxError", "TokenizationError"}

(***************************************************************************)
(* iter(RoffTokenizer(stream)) over a body: tag groups with simple and     *)
(* array tagkeys, with comments, complete and cut, and swap_endianess      *)
(* called between the tokens                                               *)
(***************************************************************************)
BinTagT == Keywords.TAG \o <<NUL, 116, NUL>>
BinEnd == Keywords.ENDTAG \o <<NUL>>
BinArray(typ, name) == Keywords.ARRAY \o <<NUL>> \o Keywords[typ] \o <<NUL, name, NUL>>
BinComment == <<HASH, 99, HASH>>

BinBodies ==
    { BinTagT \o Keywords.INT \o <<NUL, 120, NUL, 1, 0, 0, 0>> \o BinEnd,
      BinTagT \o BinArray("INT", 97) \o <<2, 0, 0, 0, 1, 0, 0, 0, 2, 0, 0, 0>> \o BinEnd,
      BinTagT \o BinArray("CHAR", 99) \o <<2, 0, 0, 0, 97, NUL, 98, NUL>> \o BinEnd,
      BinTagT \o BinArray("BOOL", 98) \o <<2, 0, 0, 0, 1, 0>> \o BinEnd,
      BinTagT \o BinArray("DOUBLE", 100) \o <<1, 0, 0, 0, 0, 0, 0, 0, 0, 0, 240, 63>> \o BinEnd,
      BinTagT \o BinArray("BYTE", 121) \o <<0, 0, 0, 1, 7>> \o BinEnd,
      BinTagT \o BinArray("FLOAT", 102) \o <<1, 0, 0, 0, 0, 0, 128, 63>> \o BinEnd,
      BinComment \o <<NUL>> \o BinTagT \o BinComment \o <<NUL>> \o Keywords.INT
          \o <<NUL, 120, NUL, 1, 0, 0, 0>> \o BinEnd,
      Keywords.TAG \o <<NUL>>,
      Keywords.TAG,
      BinTagT \o Keywords.INT \o <<NUL, 120>>,
      BinTagT \o Keywords.INT \o <<120, NUL, 1, 0, 0, 0>> \o BinEnd,
      BinTagT \o Keywords.ARRAY \o <<NUL>> \o Keywords.INT \o <<NUL, 97>>,
      BinComment \o <<120>> \o BinTagT \o BinEnd }

TxtBodies ==
    { <<SPACE>> \o Keywords.TAG \o <<SPACE, 116, SPACE>> \o Keywords.INT
          \o <<SPACE, 120, SPACE, 49, SPACE>> \o Keywords.ENDTAG \o <<SPACE>>,
      <<SPACE>> \o Keywords.TAG \o <<SPACE, 116, SPACE>> \o Keywords.ARRAY \o <<SPACE>>
          \o Keywords.INT \o <<SPACE, 97, SPACE, 50, SPACE, 49, SPACE, 50, SPACE>>
          \o Keywords.ENDTAG \o <<SPACE>>,
      <<SPACE>> \o Keywords.TAG \o <<SPACE, 116, SPACE>> \o BinComment \o <<SPACE>>
          \o Keywords.INT \o <<SPACE, 120, SPACE, 49, SPACE>> \o Keywords.ENDTAG,
      <<SPACE>> \o Keywords.TAG \o <<SPACE>>,
      <<SPACE>> \o Keywords.TAG \o <<SPACE, 116, SPACE>> \o Keywords.INT \o <<SPACE, 120, SPACE>>,
      <<SPACE>> \o Keywords.TAG \o <<SPACE, 116, SPACE>> \o Keywords.ARRAY \o <<SPACE>>
          \o Keywords.INT \o <<SPACE>> }

InitBody ==
    /\ given \in [text : {FALSE}, body : BinBodies] \cup [text : {TRUE}, body : TxtBodies]
    /\ text = given.text
    /\ stream = IF text THEN Keywords.ROFF_ASC \o given.body
                ELSE Keywords.ROFF_BIN \o <<NUL>> \o given.body
    /\ mode = "lazy"
    /\ status = "running"
    /\ tk = NewTokenizer
    /\ pa = NewParser
    /\ hd = NewHandler
    /\ tags = <<>>
    /\ warnings = 0
    /\ result = <<>>
    /\ files = <<>>
    /\ tokens = <<>>

NextBody ==
    \/ TokenizerNext
    \/ SwapTokenizer

SpecBody == InitBody /\ [][NextBody]_vars

\* the positions at which one_of(*tokenizers) attempts its alternatives from
\* the i-th on, in order
RECURSIVE one_of_attempts(_, _, _, _, _)
one_of_attempts(m, s, p, kinds, i) ==
    LET next(r) == IF r.ok \/ i = Len(kinds) THEN <<>>
                   ELSE one_of_attempts(m, s, r.pos, kinds, i + 1)
    IN  <<p>> \o next(tokenize_keyword(m, s, p, kinds[i]))

\* C23: where the tokenizer is about to apply one_of to the simple type
\* keywords, every alternative is attempted at the position where one_of
\* starts, and when all of them fail the stream is left at that position.
C23_OneOfRestores ==
    LET restored(p, attempts, r) ==
            /\ \A i \in 1..Len(attempts) : attempts[i] = p
            /\ ~r.ok => r.pos = p
    IN  (status = "running" /\ tk.ts.at \in {"tagkeys", "a_type"}) =>
            restored(tk.ts.pos,
                     one_of_attempts(tk.m, stream, tk.ts.pos, SimpleTypes, 1),
                     tokenize_simple_type(tk.m, stream, tk.ts.pos))

\* how many tokens of a kind the consumer has got
Delivered(kind) == Cardinality({i \in 1..Len(tokens) : tokens[i].kind = kind})

\* C24: when the tokenizer has returned or raised, every tag group of which
\* the consumer has got a token was tokenized to its end: a tag group that
\* failed at a later element has delivered none of its tokens, so there are as
\* many TAG tokens as ENDTAG tokens.
C24_NoPartialCommit ==
    status # "running" => Delivered("TAG") = Delivered("ENDTAG")

\* the places of the grammar inside an application of tokenize_tag_group
InTagGroup ==
    {"tagname", "tagkeys", "sk_name", "sk_value", "a_type", "a_name", "a_size",
     "a_data", "a_chars", "a_vals"}

\* where the TAG token of the tag group being tokenized starts
LastTagStart ==
    tokens[CHOOSE i \in 1..Len(tokens) :
               /\ tokens[i].kind = "TAG"
               /\ \A j \in (i + 1)..Len(tokens) : tokens[j].kind # "TAG"].start

\* C25: when an application of tokenize_tag_group fails, which ends
\* repeated(tokenize_tag_group), the stream is left where that application
\* began: what follows (tokenize_end_of_file) stops at or before the TAG
\* token of the failed group.
C25_RepeatedRestores ==
    [][(tk.ts.at \in InTagGroup /\ tk'.ts.at = "finished") =>
           tk'.ts.pos <= LastTagStart]_vars

\* C26: over a binary stream, whenever a body tokenizer exists its byte order
\* is the byte order of the RoffTokenizer, and that order is little-endian
\* after an even number of swap_endianess calls and big-endian after an odd
\* number, whether the calls came before or after the header was read.
C26_BodyOrderFollows ==
    (~text /\ tk.m = "bin") =>
        /\ tk.body_endianess = tk.endianess
        /\ tk.endianess = IF tk.swaps % 2 = 0 THEN "little" ELSE "big"

\* the size of an array is about to be decoded after two swaps
C26_Witness ==
    /\ ~text
    /\ tk.m = "bin"
    /\ tk.ts.at = "a_data"
    /\ tk.swaps = 2

(***************************************************************************)
(* The array counts of the tokenizer and of the parser (SpecRead)          *)
(***************************************************************************)
\* toks[i] begins a binary array tagkey whose data is one blob:
\* ARRAY, type, NAME, count, ARRAYBLOB
IsBlobArray(toks, i) ==
    /\ i + 4 <= Len(toks)
    /\ toks[i].kind = "ARRAY"
    /\ toks[i + 4].kind = "ARRAYBLOB"

\* the count tokenize_array_data has sized the blob with
TokenizerCount(toks, i) ==
    (toks[i + 4].end - toks[i + 4].start) \div tokenlen(toks[i + 1].kind)

\* the count parse_array_tagkey_body decodes under the byte order e
ParserCount(toks, i, e) ==
    parse_numeric_value(toks, i + 3, stream, "INT", Ctx(e, TRUE, FALSE)).val.v

\* the counts of the blob arrays that tag has not handed out yet are those
\* the parser decodes now
CountsAgree(tag) ==
    LET same(t, p) == t = IF p >= MaxCount THEN MaxCount ELSE p
    IN  \A i \in tag.i..Len(tag.toks) :
            IsBlobArray(tag.toks, i) =>
                same(TokenizerCount(tag.toks, i), ParserCount(tag.toks, i, pa.endianess))

Thunk(typ, number, tok) ==
    [k |-> "thunk", t |-> typ, v |-> [number |-> number, tok |-> tok, value2 |-> NoVal]]

\* parse_array_tagkey_body where parse_array_values finds an ARRAYBLOB: the
\* type, the name and the count are parsed, the values are a callback
lazy_array_tagkey_body(toks, i, s, c) ==
    LET counted(name, number) ==
            IF ~number.ok THEN number
            ELSE Parsed(name.name, Thunk(toks[i + 1].kind, number.val.v, toks[i + 4]), i + 5)
        named(name) ==
            IF ~name.ok THEN name
            ELSE counted(name, parse_numeric_value(toks, i + 3, s, "INT", c))
    IN  named(parse_name(toks, i + 2, s, c))

\* next(iter(RoffTagKeyParser)) by a caller who does not unpack what it gets
lazy_tagkey_next(toks, i, s, c) ==
    IF IsBlobArray(toks, i) THEN lazy_array_tagkey_body(toks, i, s, c)
    ELSE tagkey_next(toks, i, s, c)

\* the callback parse_array_values yields for an ARRAYBLOB, called when the
\* parser's byte order is e
callback2(th, s, e) ==
    IF th.t = "BYTE" THEN Ok(Val("bytes", get_value(th.v.tok, s)))
    ELSE np_ndarray(th.v.number, th.t, e, get_value(th.v.tok, s))

\* a value2 that calls the callback at every access
value2_uncached(th, s, e) ==
    LET called(r) == [ok |-> r.ok, err |-> r.err,
                      th |-> IF r.ok THEN [th EXCEPT !.v.value2 = r.val] ELSE th]
    IN  called(callback2(th, s, e))

\* LazyTuple.value2: [ok, err, th], th.v.value2 being what is returned
value2(th, s, e) ==
    LET called(r) == [ok |-> r.ok, err |-> r.err,
                      th |-> IF r.ok THEN [th EXCEPT !.v.value2 = r.val] ELSE th]
    IN  IF th.v.value2 = NoVal THEN called(callback2(th, s, e))
        ELSE [ok |-> TRUE, err |-> "none", th |-> th]

LazyGroup(name, keys) == Keywords.TAG \o <<NUL>> \o name \o <<NUL>> \o keys \o BinEnd

\* tag groups of binary files: filedata that asks for no swap and for a swap,
\* arrays written little-endian and big-endian
LazyGroups ==
    { LazyGroup(Filedata, Keywords.INT \o <<NUL>> \o Byteswaptest \o <<NUL, 1, 0, 0, 0>>),
      LazyGroup(Filedata, Keywords.INT \o <<NUL>> \o Byteswaptest \o <<NUL, 2, 0, 0, 0>>),
      LazyGroup(<<117>>, BinArray("INT", 97) \o <<2, 0, 0, 0, 1, 0, 0, 0, 2, 0, 0, 0>>),
      LazyGroup(<<117>>, BinArray("INT", 97) \o <<0, 0, 0, 2, 0, 0, 0, 1, 0, 0, 0, 2>>),
      LazyGroup(<<118>>, Keywords.INT \o <<NUL, 120, NUL, 1, 0, 0, 0>>
                         \o BinArray("BYTE", 98) \o <<2, 0, 0, 0, 7, 8>>),
      LazyGroup(<<119>>, BinArray("DOUBLE", 100)
                         \o <<1, 0, 0, 0, 0, 0, 0, 0, 0, 0, 240, 63>>) }

MaxLazyGroups == 2

InitLazy ==
    /\ given \in SeqsUpTo(LazyGroups, MaxLazyGroups)
    /\ stream = Keywords.ROFF_BIN \o <<NUL>> \o Concat(given)
    /\ mode = "lazy"
    /\ status = "running"
    /\ Fresh

\* next(tag_group) on the tag group handed out last; what comes is kept as it is
PullLazy ==
    LET pulled(j, tag, r) ==
            /\ tags' = [tags EXCEPT ![j] =
                          IF r.ok
                          THEN [tag EXCEPT !.keys = Append(@, Item(r.name, r.val)),
                                           !.i = r.i,
                                           !.items = IF tag.lazy THEN <<>> ELSE Tail(@),
                                           !.at_pull = Append(@, pa.endianess)]
                          ELSE [tag EXCEPT !.closed = TRUE]]
            /\ status' = IF r.ok \/ r.err = "StopIteration" THEN status ELSE r.err
        next(j, tag) ==
            pulled(j, tag,
                   IF tag.lazy
                   THEN lazy_tagkey_next(tag.toks, tag.i, stream, tagkey_ctx(tag, pa, text))
                   ELSE IF tag.items = <<>> THEN ParseError("StopIteration")
                   ELSE Parsed(Head(tag.items).name, Head(tag.items).val, tag.i + 1))
    IN  /\ status \in {"running", "exhausted"}
        /\ tags # <<>>
        /\ ~tags[Len(tags)].closed
        /\ next(Len(tags), tags[Len(tags)])
        /\ UNCHANGED <<given, stream, text, mode, tk, pa, hd, warnings, result, files, tokens>>

\* lt[1] on the i-th thing tag j has given
Access(j, i) ==
    LET got(r) ==
            /\ tags' = [tags EXCEPT ![j].keys[i].val = r.th]
            /\ status' = IF r.ok THEN status ELSE r.err
    IN  /\ status \in {"running", "exhausted"}
        /\ i \in 1..Len(tags[j].keys)
        /\ tags[j].keys[i].val.k = "thunk"
        /\ got(value2(tags[j].keys[i].val, stream, pa.endianess))
        /\ UNCHANGED <<given, stream, text, mode, tk, pa, hd, warnings, result, files, tokens>>

NextLazy ==
    \/ HandlerNext
    \/ PullLazy
    \/ \E j \in 1..Len(tags) : \E i \in 1..Len(tags[j].keys) : Access(j, i)

SpecLazy == InitLazy /\ [][NextLazy]_vars

\* value is what the blob of th holds, read under the byte order e: as many
\* elements as the count that was parsed, each from its own bytes of the blob
DecodedFrom(value, th, e) ==
    LET w == tokenlen(th.t)
        blob == get_value(th.v.tok, stream)
    IN  /\ Len(value.v) = th.v.number
        /\ Len(blob) = th.v.number * w
        /\ IF th.t = "BYTE" THEN value = Val("bytes", blob)
           ELSE /\ value.k = "array"
                /\ \A n \in 1..th.v.number :
                      value.v[n] = from_buffer(SubSeq(blob, (n - 1) * w + 1, n * w),
                                               th.t, e).v

\* what a step may do to the i-th thing tag j has given, new being that
\* thing after the step
ThunkStep(j, i, new) ==
    LET first == new.v.value2 = NoVal
        later(old) ==
            /\ old.v.value2 # NoVal => new = old
            /\ (old.v.value2 = NoVal /\ new.v.value2 # NoVal) =>
                    DecodedFrom(new.v.value2, old, pa.endianess)
    IN  new.k = "thunk" =>
            IF i > Len(tags[j].keys) THEN first ELSE later(tags[j].keys[i].val)

\* C28: a binary blob array comes out of the tagkey parser undecoded; the
\* step that first computes its value decodes the blob under the byte order
\* the parser has in that step, into as many elements as the count says; once
\* computed, the value never changes, whatever the byte order becomes.
C28_LazyDecode ==
    [][\A j \in 1..Len(tags) : \A i \in 1..Len(tags'[j].keys) :
           ThunkStep(j, i, tags'[j].keys[i].val)]_vars

\* an int array that was decoded little-endian is held while the parser has
\* become big-endian
C28_Witness ==
    /\ pa.endianess = "big"
    /\ \E j \in 1..Len(tags) : \E i \in 1..Len(tags[j].keys) :
          /\ tags[j].keys[i].val.k = "thunk"
          /\ tags[j].keys[i].val.v.value2 = ArrayVal("int", <<1, 2>>)

(***************************************************************************)
(* The data of binary arrays (SpecBody)                                    *)
(***************************************************************************)
\* a null byte lies at or after position p
NulAhead(p) == \E q \in p..(Len(stream) - 1) : stream[q + 1] = NUL

\* the position of the first null byte at or after p
NextNul(p) ==
    CHOOSE q \in p..(Len(stream) - 1) :
        /\ stream[q + 1] = NUL
        /\ \A r \in p..(q - 1) : stream[r + 1] # NUL

\* the token the consumer got in this step, NoToken if it got none
DeliveredNow == IF Len(tokens') > Len(tokens) THEN tokens'[Len(tokens')] ELSE NoToken

\* a pull that goes on in tokenize_array_data with n values to come
ArrayDataStep(n) ==
    LET width == CASE tk.ts.typ \in {"BOOL", "BYTE"} -> 1
                   [] tk.ts.typ \in {"INT", "FLOAT"} -> 4
                   [] OTHER -> 8
        blob(start) ==
            /\ tokens' = Append(tokens, Token("ARRAYBLOB", start, start + n * width))
            /\ tk'.ts.at = "tagkeys"
            /\ tk'.ts.pos = start + n * width
        string(start, end) ==
            /\ tokens' = Append(tokens, Token("STRING_LITERAL", start, end))
            /\ tk'.ts.pos = end + 1
            /\ IF n = 1 THEN tk'.ts.at = "tagkeys"
               ELSE tk'.ts.at = "a_chars" /\ tk'.ts.n = n - 1
    IN  IF tk.ts.typ # "CHAR" THEN blob(tk.ts.cnt.end)
        ELSE /\ (n >= 1 /\ NulAhead(tk.ts.pos)) => string(tk.ts.pos, NextNul(tk.ts.pos))
             /\ n = 0 => DeliveredNow.kind # "STRING_LITERAL"

\* C29: the pull that follows the count of a binary array reads the count n
\* under the body tokenizer's byte order of that moment; for a type other
\* than char it delivers one ARRAYBLOB that starts right after the count and
\* is n times the width of the type long (1 for bool and byte, 4 for int and
\* float, 8 for double), and the array is over; for char each of n pulls
\* delivers one STRING_LITERAL that spans the bytes up to the next null byte,
\* as long as the stream holds one, and after the n-th the array is over.
C29_ArrayData ==
    [][(status = "running" /\ tk'.ts # tk.ts) =>
          /\ tk.ts.at = "a_data" =>
                ArrayDataStep(from_bytes(get_value(tk.ts.cnt, stream), tk.body_endianess))
          /\ tk.ts.at = "a_chars" => ArrayDataStep(tk.ts.n)
          /\ tk.ts.at \notin {"a_data", "a_chars"} =>
                DeliveredNow.kind \notin {"ARRAYBLOB"}]_vars

\* the second of the two strings of a char array has been delivered and the
\* array is over
C29_Witness ==
    /\ Delivered("STRING_LITERAL") = 2
    /\ tk.ts.at = "tagkeys"
    /\ tokens[Len(tokens)].kind = "STRING_LITERAL"

(***************************************************************************)
(* read and lazy_read of a stream with one bool tagkey                     *)
(***************************************************************************)
\* what stands for the value of the bool: in a text stream the characters
\* 1, 0, 2, 7, 10, 01, -, -1, "a", "ab", "1" and "0"; in a byte stream a byte
BoolValues ==
    [text : {TRUE},
     value : { <<49>>, <<48>>, <<50>>, <<55>>, <<49, 48>>, <<48, 49>>, <<MINUS>>,
               <<MINUS, 49>>, <<QUOTE, 97, QUOTE>>, <<QUOTE, 97, 98, QUOTE>>,
               <<QUOTE, 49, QUOTE>>, <<QUOTE, 48, QUOTE>> }]
    \cup [text : {FALSE}, value : {<<0>>, <<1>>, <<2>>, <<49>>, <<255>>}]

InitBool ==
    /\ given \in BoolValues
    /\ stream = IF given.text
                THEN Keywords.ROFF_ASC \o <<SPACE>> \o Keywords.TAG \o <<SPACE, 116, SPACE>>
                     \o Keywords.BOOL \o <<SPACE, 98, SPACE>> \o given.value \o <<SPACE>>
                     \o Keywords.ENDTAG \o <<NEWLINE>>
                ELSE Keywords.ROFF_BIN \o <<NUL>> \o BinTagT \o Keywords.BOOL
                     \o <<NUL, 98, NUL>> \o given.value \o BinEnd
    /\ mode \in {"read", "lazy"}
    /\ status = "running"
    /\ tk = NewTokenizer
    /\ pa = NewParser
    /\ hd = NewHandler
    /\ tags = <<>>
    /\ warnings = 0
    /\ result = <<>>
    /\ files = <<>>
    /\ tokens = <<>>
    /\ text = given.text

NextBool ==
    \/ HandlerNext
    \/ \E j \in 1..Len(tags) : PullKey(j)
    \/ Finish

SpecBool == InitBool /\ [][NextBool]_vars

\* the encodings of 1 and of 0 in the stream
IsOne == given.value = IF given.text THEN <<49>> ELSE <<1>>
IsZero == given.value = IF given.text THEN <<48>> ELSE <<0>>

\* C30: the bool tagkey is decoded only when its value token is the encoding
\* of 1 or of 0, to True and to False; every other value token makes the
\* decoding raise, and what it raises is RoffTypeError.
C30_BoolDecode ==
    /\ (tags # <<>> /\ tags[1].keys # <<>>) =>
          /\ IsOne \/ IsZero
          /\ tags[1].keys[1].val = Val("bool", IsOne)
    /\ Ended => (status = "done" \/ (status = "RoffTypeError" /\ ~IsOne /\ ~IsZero))

(***************************************************************************)
(* read and lazy_read of a text stream with one array tagkey: a declared   *)
(* count, some values after it, and then endtag, another tagkey or the end *)
(* of the stream                                                           *)
(***************************************************************************)
\* the declared counts -1..2, the numbers of values that follow, and what
\* stands after the values
ArrayStreams ==
    [typ : {"INT", "CHAR"}, count : -1..2, follow : 0..3, then : {"endtag", "key", "eof"}]

\* the text of the count and of the i-th value: the characters 1, 2, 3 for
\* int and the literals "x", "y", "z" for char
CountText(n) == IF n < 0 THEN <<MINUS, 48 - n>> ELSE <<48 + n>>
ValueText(typ, i) == IF typ = "INT" THEN <<48 + i, SPACE>> ELSE <<QUOTE, 119 + i, QUOTE, SPACE>>

RECURSIVE ValuesText(_, _, _)
ValuesText(typ, i, n) ==
    IF i > n THEN <<>> ELSE ValueText(typ, i) \o ValuesText(typ, i + 1, n)

InitArr ==
    /\ given \in ArrayStreams
    /\ stream = Keywords.ROFF_ASC \o <<SPACE>> \o Keywords.TAG \o <<SPACE, 116, SPACE>>
                \o Keywords.ARRAY \o <<SPACE>> \o Keywords[given.typ] \o <<SPACE, 97, SPACE>>
                \o CountText(given.count) \o <<SPACE>>
                \o ValuesText(given.typ, 1, given.follow)
                \o CASE given.then = "endtag" -> Keywords.ENDTAG \o <<NEWLINE>>
                     [] given.then = "key" ->
                            Keywords.INT \o <<SPACE, 120, SPACE, 55, SPACE>>
                            \o Keywords.ENDTAG \o <<NEWLINE>>
                     [] OTHER -> <<>>
    /\ mode \in {"read", "lazy"}
    /\ status = "running"
    /\ tk = NewTokenizer
    /\ pa = NewParser
    /\ hd = NewHandler
    /\ tags = <<>>
    /\ warnings = 0
    /\ result = <<>>
    /\ files = <<>>
    /\ tokens = <<>>
    /\ text = TRUE

NextArr ==
    \/ HandlerNext
    \/ \E j \in 1..Len(tags) : PullKey(j)
    \/ Finish

SpecArr == InitArr /\ [][NextArr]_vars

\* the tagkeys the caller holds: those lazy_read has handed over so far, and
\* those of the dictionary read has returned
Held ==
    IF tags # <<>> /\ (mode = "lazy" \/ status = "done") THEN tags[1].keys ELSE <<>>

\* the errors of the taxonomy that a decoding can end with
DocumentedErrors == {"RoffSyntaxError", "RoffTypeError", "ParsingException"}

\* C31: a text array tagkey with declared count n is decoded only if exactly
\* n values follow the count, to an array of exactly n elements; with fewer
\* or more values before the next keyword the decoding ends with one of the
\* documented errors, the caller never holds an array of another length, and
\* no value of the array becomes the value of the tagkey that follows it.
C31_ExactCount ==
    /\ \A i \in 1..Len(Held) :
          /\ Held[i].name = <<97>> =>
                /\ given.follow = given.count
                /\ Len(Held[i].val.v) = given.count
          /\ Held[i].name # <<97>> =>
                /\ Held[i].name = <<120>>
                /\ Held[i].val = Val("int", 7)
    /\ Ended =>
          \/ status = "done" /\ given.follow = given.count /\ given.then # "eof"
          \/ status \in DocumentedErrors
                /\ (given.follow # given.count \/ given.then = "eof")

(***************************************************************************)
(* The text tokenizer on a stream with one char tagkey: a string literal   *)
(* of up to two characters, with or without its closing quote              *)
(***************************************************************************)
\* the contents of the literal: the characters a, space and #, none of which
\* is the double quote
LiteralContents ==
    {<<>>} \cup [1..1 -> {97, SPACE, HASH}] \cup [1..2 -> {97, SPACE, HASH}]

\* what stands between the name of the tagkey and the opening quote: a space,
\* or a comment between two spaces
LiteralLeads == {<<SPACE>>, <<SPACE, HASH, 97, HASH, SPACE>>}

\* the stream up to and including the opening quote
LiteralPrefix ==
    Keywords.ROFF_ASC \o <<SPACE>> \o Keywords.TAG \o <<SPACE, 116, SPACE>>
    \o Keywords.CHAR \o <<SPACE, 107>> \o given.lead \o <<QUOTE>>

InitLit ==
    /\ given \in [content : LiteralContents, lead : LiteralLeads, closed : BOOLEAN]
    /\ text = TRUE
    /\ stream = LiteralPrefix \o given.content
                \o (IF given.closed
                    THEN <<QUOTE, SPACE>> \o Keywords.ENDTAG \o <<NEWLINE>>
                    ELSE <<SPACE>> \o Keywords.ENDTAG \o <<NEWLINE>>)
    /\ mode = "lazy"
    /\ status = "running"
    /\ tk = NewTokenizer
    /\ pa = NewParser
    /\ hd = NewHandler
    /\ tags = <<>>
    /\ warnings = 0
    /\ result = <<>>
    /\ files = <<>>
    /\ tokens = <<>>

NextLit == TokenizerNext

SpecLit == InitLit /\ [][NextLit]_vars

\* C32: the STRING_LITERAL token of a text string literal spans exactly the
\* characters strictly between the opening and the closing double quote, the
\* empty literal included (span of length 0), and when the token is delivered
\* the stream stands just after the closing quote.
C32_LiteralSpan ==
    \A i \in 1..Len(tokens) :
        tokens[i].kind = "STRING_LITERAL" =>
            /\ given.closed
            /\ tokens[i].start = Len(LiteralPrefix)
            /\ tokens[i].end = Len(LiteralPrefix) + Len(given.content)
            /\ get_value(tokens[i], stream) = given.content
            /\ i = Len(tokens) => tk.ts.pos = Len(LiteralPrefix) + Len(given.content) + 1

(***************************************************************************)
(* A consumer of iter(RoffTokenizer) that fetches the values of the tokens *)
(* it has got, in order, at any moment between two pulls                   *)
(***************************************************************************)
\* token.get_value(stream) for the first token whose value has not been
\* fetched; the values fetched are kept in result
GetValue ==
    LET fetched(r) ==
            /\ result' = Append(result, r.value)
            /\ tk' = [tk EXCEPT !.ts.pos = r.pos]
    IN  /\ Len(result) < Len(tokens)
        /\ fetched(Token_get_value(tokens[Len(result) + 1], stream, tk.ts.pos))
        /\ UNCHANGED <<given, stream, text, mode, pa, hd, tags, status, warnings, files, tokens>>

NextFetch ==
    \/ TokenizerNext
    \/ GetValue

SpecFetch == InitBody /\ [][NextFetch]_vars

\* the tokens a tokenizer in state t yields when nothing but next() is
\* applied to it
RECURSIVE TokenRun(_, _, _)
TokenRun(s, m, t) ==
    LET run(r) == IF r.res = "tok" THEN <<r.tok>> \o TokenRun(s, m, r.tk) ELSE <<>>
    IN  run(pull(s, m, t))

\* the units of the stream at the positions start..end-1
Span(tok) ==
    [j \in 1..((IF tok.end <= Len(stream) THEN tok.end ELSE Len(stream)) - tok.start) |->
        stream[tok.start + j]]

\* C36: get_value returns the stream content of the span [start, end) of the
\* token, and the tokens delivered are those of a tokenizer whose stream
\* nobody else touches: a fetch between two pulls leaves the read position,
\* and with it what the tokenizer yields next, as it was.
C36_GetValueFrame ==
    /\ \A i \in 1..Len(result) : result[i] = Span(tokens[i])
    /\ tokens = SubSeq(TokenRun(stream, text, NewTokenizer), 1, Len(tokens))
    /\ status = "running" =>
          TokenRun(stream, text, tk)
              = SubSeq(TokenRun(stream, text, NewTokenizer), Len(tokens) + 1,
                       Len(TokenRun(stream, text, NewTokenizer)))

\* the value of a token has been fetched while the tokenizer was suspended
\* inside a tag group, and the tokenizer has yielded another token since
C36_Witness ==
    /\ Len(result) >= 3
    /\ Len(tokens) > Len(result)
    /\ result[3] = <<116>>

(***************************************************************************)
(* write, then read, of a value tree with one tag t and one tagkey k whose *)
(* value is a boolean, an empty iterable or holds bytes objects            *)
(***************************************************************************)
\* the values of the tagkey: True, np.bool_(False), [True, False],
\* np.array([True, False]); np.array([], dtype=np.int32),
\* np.array([], dtype=np.float32), np.array([], dtype=np.bool_), [], b"";
\* [b"AB"], [b""], [b"A", b"B"], [b"A", b"BC"], b"A", [b"A"]
KindValues ==
    { Val("bool", TRUE), Element("bool", FALSE),
      ListVal(<<Val("bool", TRUE), Val("bool", FALSE)>>),
      ArrayVal("bool", <<TRUE, FALSE>>),
      ArrayVal("int", <<>>), ArrayVal("float", <<>>), ArrayVal("bool", <<>>),
      ListVal(<<>>), Val("bytes", <<>>),
      ListVal(<<Val("bytes", <<65, 66>>)>>), ListVal(<<Val("bytes", <<>>)>>),
      ListVal(<<Val("bytes", <<65>>), Val("bytes", <<66>>)>>),
      ListVal(<<Val("bytes", <<65>>), Val("bytes", <<66, 67>>)>>),
      Val("bytes", <<65>>), ListVal(<<Val("bytes", <<65>>)>>) }

InitKinds ==
    /\ given \in [tags : {<<PyTag(<<116>>, <<Item(<<107>>, v)>>, "dict")>> : v \in KindValues},
                  form : Formats, py : {"dict", "list"}, dest : {"stream", "path"}]
    /\ stream = (IF given.dest = "path" THEN OldContent ELSE <<>>)
    /\ mode = "read"
    /\ status = "writing"
    /\ Fresh

SpecKinds == InitKinds /\ [][Next]_vars

\* the value the caller gave for the tagkey k
GivenValue == given.tags[1].keys[1].val

\* write has been called for a stream of the format, and has written the
\* stream if it did not raise
Wrote(roff_format) == status # "writing" /\ text = (roff_format = "ASCII")

\* part stands in whole, its elements next to each other
IsInfix(part, whole) ==
    \E p \in 0..(Len(whole) - Len(part)) : SubSeq(whole, p + 1, p + Len(part)) = part

\* the booleans of a value that is a boolean or holds booleans, in order
Booleans(value) ==
    CASE value.k = "bool" -> <<value.v>>
      [] value.k = "array" /\ value.t = "bool" -> value.v
      [] value.k = "list" /\ value.v # <<>> /\ value.v[1].k = "bool" ->
            [j \in 1..Len(value.v) |-> value.v[j].v]
      [] OTHER -> <<>>

\* the ASCII tagkey k of booleans with every one written as the digit 1 or 0
DigitLines(bs) == Concat([j \in 1..Len(bs) |-> <<IF bs[j] THEN 49 ELSE 48, NEWLINE>>])

BoolDigits(value) ==
    IF value.k = "bool"
    THEN Keywords.BOOL \o <<SPACE, 107, SPACE>> \o DigitLines(Booleans(value))
    ELSE Keywords.ARRAY \o <<SPACE>> \o Keywords.BOOL \o <<SPACE, 107, SPACE>>
         \o str_nat(Len(Booleans(value))) \o <<NEWLINE>> \o DigitLines(Booleans(value))

\* C33: in ASCII output every boolean, a scalar or an element of an array, a
\* Python bool or a numpy bool, is written as the one digit 1 or 0, and read
\* gets through the stream that holds it.
C33_BoolDigits ==
    (Wrote("ASCII") /\ Booleans(GivenValue) # <<>>) =>
        /\ IsInfix(BoolDigits(GivenValue), stream)
        /\ ~ReadFailed

\* the type an array with no elements is to be written with: the declared
\* element type where there is one, byte where there is none
EmptyType(value) ==
    IF value.k = "array" THEN TypeName[numpy_to_roff_dtype(value.t)] ELSE Keywords.BYTE

EmptyArray(value, roff_format) ==
    IF roff_format = "ASCII"
    THEN Keywords.ARRAY \o <<SPACE>> \o EmptyType(value) \o <<SPACE, 107, SPACE, 48, NEWLINE>>
    ELSE Keywords.ARRAY \o <<NUL>> \o EmptyType(value) \o <<NUL, 107, NUL, 0, 0, 0, 0>>

IsEmpty(value) == value.k \in {"array", "list", "bytes"} /\ value.v = <<>>

\* C34: an empty numpy array is written as an array of its element type with
\* count 0 and an empty iterable without an element type as an array of byte
\* with count 0, in BINARY and in ASCII alike.
C34_EmptyArrayType ==
    \A f \in Formats :
        (Wrote(f) /\ IsEmpty(GivenValue)) => IsInfix(EmptyArray(GivenValue, f), stream)

\* the value is an array-like with a bytes object that is not one byte long
\* among its elements
HasWrongByte(value) ==
    /\ value.k = "list"
    /\ \E j \in 1..Len(value.v) : value.v[j].k = "bytes" /\ Len(value.v[j].v) # 1

\* the BINARY tagkey k of a list of n bytes objects: the count n and n bytes
ByteArray(value) ==
    Keywords.ARRAY \o <<NUL>> \o Keywords.BYTE \o <<NUL, 107, NUL>>
    \o count_bytes(Len(value.v)) \o Concat([j \in 1..Len(value.v) |-> value.v[j].v])

IsByteList(value) ==
    value.k = "list" /\ value.v # <<>> /\ \A j \in 1..Len(value.v) : value.v[j].k = "bytes"

\* C35: a bytes object that is not one byte long as an element of an
\* array-like makes write raise RoffWriteError in BINARY and in ASCII, and a
\* byte array that write has written in BINARY holds as many bytes as the
\* count it declares.
C35_ByteElements ==
    /\ (status # "writing" /\ HasWrongByte(GivenValue)) => status = "RoffWriteError"
    /\ (Wrote("BINARY") /\ IsByteList(GivenValue) /\ IsInfix(ByteArray(GivenValue), stream)) =>
          Len(Concat([j \in 1..Len(GivenValue.v) |-> GivenValue.v[j].v])) = Len(GivenValue.v)

(***************************************************************************)
(* iter(RoffTokenizer) on the files of the generators cut at any position  *)
(***************************************************************************)
InitSpan ==
    /\ given \in UNION {[tags : {t}, form : {f}, cut : 0..Len(file_contents(t, f))] :
                            t \in SeqsUpTo(CutPool, MaxCutTags), f \in Forms}
    /\ stream = SubSeq(file_contents(given.tags, given.form), 1, given.cut)
    /\ text = (given.form = "asc")
    /\ mode = "lazy"
    /\ status = "running"
    /\ tk = NewTokenizer
    /\ pa = NewParser
    /\ hd = NewHandler
    /\ tags = <<>>
    /\ warnings = 0
    /\ result = <<>>
    /\ files = <<>>
    /\ tokens = <<>>

NextSpan == TokenizerNext

SpecSpan == InitSpan /\ [][NextSpan]_vars

\* C37: every token the tokenizer yields has 0 <= start <= end <= length of
\* the stream, and starts at or after the end of the token yielded before
\* it, whatever the input, a binary stream cut inside a fixed-width value or
\* before the end of the data of an array included.
C37_TokenSpans ==
    \A i \in 1..Len(tokens) :
        /\ 0 <= tokens[i].start
        /\ tokens[i].start <= tokens[i].end
        /\ tokens[i].end <= Len(stream)
        /\ i > 1 => tokens[i - 1].end <= tokens[i].start

(***************************************************************************)
(* Iteration over the result of lazy_read on well-formed files, by a       *)
(* caller that takes as many tagkeys of each tag as it likes, of any tag   *)
(* it holds, before it asks for the next tag                               *)
(***************************************************************************)
\* the tag groups after filedata: t with two tagkeys, u with an array, v
\* with none
NamePool ==
    { FileTag(<<116>>, <<Item(<<120>>, Val("int", 258)), Item(<<121>>, Val("int", 3))>>),
      FileTag(<<117>>, <<Item(<<97>>, ArrayVal("int", <<1, 2>>))>>),
      FileTag(<<118>>, <<>>) }

MaxNameTags == 2

InitNames ==
    /\ given \in [tags : {<<FileTag(Filedata, <<Item(Byteswaptest, Val("int", 1))>>)>> \o q :
                              q \in SeqsUpTo(NamePool, MaxNameTags)},
                  form : Forms]
    /\ stream = file_contents(given.tags, given.form)
    /\ text = (given.form = "asc")
    /\ mode = "lazy"
    /\ status = "running"
    /\ tk = NewTokenizer
    /\ pa = NewParser
    /\ hd = NewHandler
    /\ tags = <<>>
    /\ warnings = 0
    /\ result = <<>>
    /\ files = <<>>
    /\ tokens = <<>>

NextNames ==
    \/ HandlerNext
    \/ \E j \in 1..Len(tags) : PullKey(j)

SpecNames == InitNames /\ [][NextNames]_vars

\* the names of a sequence of tags or of tagkeys, in order
NamesOf(items) == [j \in 1..Len(items) |-> items[j].name]

IsPrefix(p, q) == Len(p) <= Len(q) /\ p = SubSeq(q, 1, Len(p))

\* C38: whatever the caller has taken of the tagkeys of the tags it holds,
\* everything, a part or nothing, the tags it has got are the tags of the
\* file in their order and the iteration goes on to the last of them; the
\* tagkeys it has got from a tag are tagkeys of that tag, in order.
C38_TagNames ==
    /\ IsPrefix(NamesOf(tags), NamesOf(given.tags))
    /\ \A j \in 1..Len(tags) : IsPrefix(NamesOf(tags[j].keys), NamesOf(given.tags[j].keys))
    /\ status \in {"running", "exhausted"}
    /\ status = "exhausted" => Len(tags) = Len(given.tags)

\* the caller holds three tags, has taken a tagkey of the second only after
\* it got the third, and has taken nothing of the third
C38_Witness ==
    /\ Len(tags) = 3
    /\ tags[2].at_pull # <<>>
    /\ Len(tags[2].keys) < Len(given.tags[2].keys)
    /\ tags[3].keys = <<>>
    /\ given.tags[3].keys # <<>>
    /\ status = "exhausted"

=============================================================================
